---- MODULE Spec2Model ----
(***************************************************************************)
(* Session and device-trust security core of the backend                   *)
(* (src/references/backend/app/core): Session Manager, Brute-Force Guard,  *)
(* Device Trust Engine, Step-Up Orchestrator and Session Analytics over    *)
(* the shared store, and the two middlewares that call them.               *)
(*                                                                         *)
(* Each component has its own specification (SpecSession, SpecBF,          *)
(* SpecDevice, SpecStepUp, SpecQuestions, SpecAnalytics); the components'  *)
(* keys in the store are disjoint, so each specification leaves the other  *)
(* components' variables unchanged. SpecGateway and SpecSessionMw run a    *)
(* middleware together with the components it calls.                       *)
(* SpecSessionConc, SpecValidateRace, SpecTrackLogin and SpecRecoveryRace  *)
(* follow calls command by command, with other calls in between;           *)
(* SpecVerify, SpecDeviceObs, SpecAnomalyWindow and SpecDurations follow a *)
(* component with the inputs and history their properties speak of.        *)
(***************************************************************************)
EXTENDS Integers, Sequences, FiniteSets, TLC

VARIABLES
    now,        \* session clock, seconds (datetime.utcnow and the store's clock)
    sess,       \* store: session:{id} -> SessionData, a function on the stored ids
    sessTTL,    \* store: session:{id} -> instant at which the store evicts the key
    members,    \* store: user_sessions:{user_id} -> set of session ids
    nextId,     \* number of session ids handed out so far (uuid4: never reused)
    ended,      \* history: session ids for which end_session has completed
    issued,     \* history: session id -> the record last written for it
    sLast,      \* history: the last Session Manager call and its result
    bfCount,    \* store: brute_force:{identifier} -> count, 0 when the key is absent
    bfTTL,      \* store: what TTL answers for the key: seconds left, -1 none, -2 absent
    bfPending,  \* record_failure calls whose incr returned 1 and whose expire is to come
    bfFails,    \* history: identifier -> failures recorded since its counter was created
    bfAge,      \* history: identifier -> seconds since the incr that created its counter
    bfLast,     \* history: the last Brute-Force Guard call and its result
    devNow,     \* device clock, days
    devInfo,    \* store: device:info:{user_id} -> hash fingerprint -> DeviceInfo
    devLocs,    \* store: device:locations:{user_id} -> list of locations
    devStats,   \* store: device:stats:{user_id} total_logins, 0 when absent
    devLast,    \* history: the last Device Trust call and what it returned
    suNow,      \* step-up clock
    suMethods,  \* store: step_up:methods:{user_id} -> hash kind -> StepUpMethod
    suGen,      \* user -> number of generate_recovery_codes calls so far
    suAccepts,  \* history: user -> code of the current list -> times it was accepted
    suLast,     \* history: the last Step-Up call and what it returned
    qLast,      \* history: the last security-questions call and what it returned
    aLog,       \* store: login_events:{user_id} -> list of LoginEvent, newest first
    aStats,     \* store: user_stats:{user_id} -> hash of counters
    aDevices,   \* store: user_devices:{user_id} -> hash device family -> count
    aBrowsers,  \* store: user_browsers:{user_id} -> hash browser family -> count
    aCountries, \* store: user_countries:{user_id} -> hash country -> count
    aLast,      \* history: the last Session Analytics call and what it returned
    redisPool,  \* redis_pool of app/core/redis.py is set
    storeUp,    \* the store answers commands
    gwRedis,    \* SecurityMiddleware.redis and the three components are set
    gw428,      \* history: (user, fingerprint) pairs the device check answered with 428
    gwMarked,   \* history: pairs marked trusted after a 428 and not seen since
    gwLast,     \* history: the last Gateway call and its response
    smLast,      \* history: the last session-middleware call and its response
    sRead,      \* a validate_session call between its get and its setex: the id and record it holds
    sEndedAll,   \* history: the ids of the users' sessions at their end_all_user_sessions calls
    aPending,    \* track_login calls between their lpush and their pipeline: user and event
    suClient,   \* StepUpAuth.redis: unset, or the kind of answers the client gives, str or bytes
    suEmail,    \* store: step_up:email:{user_id} -> the code sent, NoCode when absent
    vLast,       \* history: the last verify call of any kind and how it ended
    devSeen,    \* history: what the last process_device call was given and found: location, known locations, clock
    devCalls,    \* history: user -> number of process_device calls so far
    sReads,      \* validate_session calls in flight together: call -> the id, utcnow() and record it read, the record it writes, how far it is
    suReads,     \* verify_recovery_code calls in flight together: call -> user, code, the method it holds, how far it is, what it returned
    aNow,        \* analytics clock, seconds: datetime.utcnow() of track_login
    devDistrusted \* history: (user, fingerprint) pairs marked untrusted and not marked trusted since

svars == <<now, sess, sessTTL, members, nextId, ended, issued, sLast>>
bvars == <<bfCount, bfTTL, bfPending, bfFails, bfAge, bfLast>>
dvars == <<devNow, devInfo, devLocs, devStats, devLast>>
uvars == <<suNow, suMethods, suGen, suAccepts, suLast>>
qvars == <<qLast>>
avars == <<aLog, aStats, aDevices, aBrowsers, aCountries, aLast>>
rvars == <<redisPool, storeUp>>
gvars == <<gwRedis, gw428, gwMarked, gwLast>>
mvars == <<smLast>>
cvars == <<sRead, sEndedAll>>
tvars == <<aPending>>
evars == <<suClient, suEmail, vLast>>
ovars == <<devSeen, devCalls>>
wvars == <<sReads>>
xvars == <<suReads>>
yvars == <<aNow>>
zvars == <<devDistrusted>>
vars == <<svars, bvars, dvars, uvars, qvars, avars, rvars, gvars, mvars, cvars, tvars, evars, ovars, wvars, xvars, yvars, zvars>>

----------------------------------------------------------------------------
(* Session Manager: app/core/session.py                                    *)

Users == {"u1", "u2"}

\* security_config.jwt_expiry, minutes: the default of SessionManager.timeout
timeout == 30

\* timedelta(minutes=self.timeout) and self.timeout * 60, in seconds
TimeoutSeconds == timeout * 60

\* the clock advances in steps of TickSeconds, up to MaxNow
TickSeconds == 600
MaxNow == 3000
MaxSessions == 2

\* a session id no create ever returned ("invalid-session")
InvalidId == 0

\* the time a handler may spend between reading utcnow() and its store write
Lags == {0, 2 * TickSeconds}

\* a call as the history keeps it: the operation, its arguments, what it returned,
\* the utcnow() it read, the expires_at it wrote, and (after) the expires_at that
\* create_session wrote when the call directly follows the create of the same id
NoCall ==
    [op |-> "none", sid |-> InvalidId, user |-> "", ret |-> FALSE, t |-> 0,
     exp |-> 0, after |-> -1]

Call(op, sid, user, ret, t, exp) ==
    [op |-> op, sid |-> sid, user |-> user, ret |-> ret, t |-> t, exp |-> exp,
     after |-> IF sLast.op = "create" /\ sLast.sid = sid THEN sLast.exp ELSE -1]

\* SessionData(user_id, created_at, expires_at, ip_address, user_agent), is_active = True
SessionData(u, t) ==
    [user_id |-> u, created_at |-> t, expires_at |-> t + TimeoutSeconds,
     is_active |-> TRUE]

\* what the history keeps of a record written to the store
Issued(session) == [user_id |-> session.user_id, expires_at |-> session.expires_at]

\* the store at instant t: keys whose TTL has run out are gone
Evicted(ttl, t) == {k \in DOMAIN ttl : ttl[k] <= t}

Restrict(f, S) == [k \in S |-> f[k]]

\* redis.setex(key, ttl, value) at instant t on store (s, ttl)
SetEx(s, k, v) == [x \in DOMAIN s \cup {k} |-> IF x = k THEN v ELSE s[x]]

\* get_session: the record, or absent
HasSession(sid) == sid \in DOMAIN sess

\* end_session on (s, m): srem from the owner's set when the record is found, then delete
EndMembers(s, m, sid) ==
    IF sid \in DOMAIN s
    THEN [m EXCEPT ![s[sid].user_id] = @ \ {sid}]
    ELSE m

EndStore(s, sid) == Restrict(s, DOMAIN s \ {sid})

\* the ids callers can present: every id handed out, and one that never was
KnownIds == (1..nextId) \cup {InvalidId}

SessionInit ==
    /\ now = 0
    /\ sess = <<>>
    /\ sessTTL = <<>>
    /\ members = [u \in Users |-> {}]
    /\ nextId = 0
    /\ ended = {}
    /\ issued = <<>>
    /\ sLast = NoCall

\* create_session: build the record at utcnow(), setex it lag seconds later, sadd
create_session(u, lag) ==
    /\ nextId < MaxSessions
    /\ now + lag <= MaxNow
    /\ LET sid == nextId + 1
           t2 == now + lag
           keep == DOMAIN sess \ Evicted(sessTTL, t2)
       IN /\ sess' = SetEx(Restrict(sess, keep), sid, SessionData(u, now))
          /\ sessTTL' = SetEx(Restrict(sessTTL, keep), sid, t2 + TimeoutSeconds)
          /\ members' = [members EXCEPT ![u] = @ \cup {sid}]
          /\ issued' = SetEx(issued, sid, Issued(SessionData(u, now)))
          /\ nextId' = sid
          /\ now' = t2
          /\ sLast' = Call("create", sid, u, TRUE, now, now + TimeoutSeconds)
    /\ UNCHANGED ended

\* validate_session, the record is missing: return False
ValidateMissing(sid) ==
    /\ ~HasSession(sid)
    /\ sLast' = Call("validate", sid, "", FALSE, now, 0)
    /\ UNCHANGED <<now, sess, sessTTL, members, nextId, ended, issued>>

\* validate_session, inactive or past expires_at: end_session, return False
ValidateExpired(sid) ==
    /\ HasSession(sid)
    /\ ~sess[sid].is_active \/ now > sess[sid].expires_at
    /\ members' = EndMembers(sess, members, sid)
    /\ sess' = EndStore(sess, sid)
    /\ sessTTL' = EndStore(sessTTL, sid)
    /\ ended' = ended \cup {sid}
    /\ sLast' = Call("validate", sid, sess[sid].user_id, FALSE, now, 0)
    /\ UNCHANGED <<now, nextId, issued>>

\* the bug of a timeout taken as seconds: utcnow() + timedelta(seconds=self.timeout)
RenewedExpiryInSeconds(t) == t + timeout

\* session.expires_at = datetime.utcnow() + timedelta(minutes=self.timeout)
RenewedExpiry(t) == t + TimeoutSeconds

\* validate_session, live: expires_at = utcnow() + timeout, setex, return True
ValidateRenew(sid, lag) ==
    /\ HasSession(sid)
    /\ sess[sid].is_active /\ ~(now > sess[sid].expires_at)
    /\ now + lag <= MaxNow
    /\ LET t2 == now + lag
           keep == DOMAIN sess \ Evicted(sessTTL, t2)
           renewed == [sess[sid] EXCEPT !.expires_at = RenewedExpiry(now)]
       IN /\ sess' = SetEx(Restrict(sess, keep), sid, renewed)
          /\ issued' = SetEx(issued, sid, Issued(renewed))
          /\ sessTTL' = SetEx(Restrict(sessTTL, keep), sid, t2 + TimeoutSeconds)
          /\ now' = t2
          /\ sLast' = Call("validate", sid, sess[sid].user_id, TRUE, now,
                           RenewedExpiry(now))
    /\ UNCHANGED <<members, nextId, ended>>

\* end_session
end_session(sid) ==
    /\ members' = EndMembers(sess, members, sid)
    /\ sess' = EndStore(sess, sid)
    /\ sessTTL' = EndStore(sessTTL, sid)
    /\ ended' = IF sid = InvalidId THEN ended ELSE ended \cup {sid}
    /\ sLast' = Call("end", sid, "", TRUE, now, 0)
    /\ UNCHANGED <<now, nextId, issued>>

\* get_user_sessions: the members whose record is found and active
UserSessions(u) == {sid \in members[u] : HasSession(sid) /\ sess[sid].is_active}

get_user_sessions(u) ==
    /\ sLast' = Call("list", InvalidId, u, TRUE, now, Cardinality(UserSessions(u)))
    /\ UNCHANGED <<now, sess, sessTTL, members, nextId, ended, issued>>

\* end_all_user_sessions: end_session for every member, then delete the set
end_all_user_sessions(u) ==
    /\ LET ids == members[u]
           owners == [m \in Users |->
                        {sid \in ids : HasSession(sid) /\ sess[sid].user_id = m}]
       IN /\ members' = [m \in Users |->
                           IF m = u THEN {} ELSE members[m] \ owners[m]]
          /\ sess' = Restrict(sess, DOMAIN sess \ ids)
          /\ sessTTL' = Restrict(sessTTL, DOMAIN sessTTL \ ids)
          /\ ended' = ended \cup ids
    /\ sLast' = Call("end_all", InvalidId, u, TRUE, now, 0)
    /\ UNCHANGED <<now, nextId, issued>>

\* redis.py: the pool is built with decode_responses=True, so scan returns str keys
DecodeResponses == TRUE

\* cleanup_expired_sessions: scan, and for a record past expires_at
\* key.decode() -- which a str key does not have: the sweep raises there
ExpiredStored == {sid \in DOMAIN sess : now > sess[sid].expires_at}

cleanup_expired_sessions ==
    /\ IF ExpiredStored = {}
       THEN /\ sLast' = Call("sweep", InvalidId, "", TRUE, now, 0)
            /\ UNCHANGED <<sess, sessTTL, members, ended>>
       ELSE IF DecodeResponses
       THEN /\ sLast' = Call("sweep_raised", InvalidId, "", FALSE, now, 0)
            /\ UNCHANGED <<sess, sessTTL, members, ended>>
       ELSE /\ sLast' = Call("sweep", InvalidId, "", TRUE, now, Cardinality(ExpiredStored))
            /\ members' = [m \in Users |->
                             members[m] \ {sid \in ExpiredStored : sess[sid].user_id = m}]
            /\ sess' = Restrict(sess, DOMAIN sess \ ExpiredStored)
            /\ sessTTL' = Restrict(sessTTL, DOMAIN sessTTL \ ExpiredStored)
            /\ ended' = ended \cup ExpiredStored
    /\ UNCHANGED <<now, nextId, issued>>

\* time passes; the store evicts the keys whose TTL has run out
SessionTick ==
    /\ now + TickSeconds <= MaxNow
    /\ now' = now + TickSeconds
    /\ LET keep == DOMAIN sess \ Evicted(sessTTL, now + TickSeconds)
       IN /\ sess' = Restrict(sess, keep)
          /\ sessTTL' = Restrict(sessTTL, keep)
    /\ sLast' = Call("tick", InvalidId, "", TRUE, now + TickSeconds, 0)
    /\ UNCHANGED <<members, nextId, ended, issued>>

SessionNext ==
    \/ \E u \in Users, lag \in Lags : create_session(u, lag) /\ UNCHANGED <<bvars, dvars, uvars, qvars, avars, rvars, gvars, mvars, cvars, tvars, evars, ovars, wvars, xvars, yvars, zvars>>
    \/ \E sid \in KnownIds : ValidateMissing(sid) /\ UNCHANGED <<bvars, dvars, uvars, qvars, avars, rvars, gvars, mvars, cvars, tvars, evars, ovars, wvars, xvars, yvars, zvars>>
    \/ \E sid \in KnownIds : ValidateExpired(sid) /\ UNCHANGED <<bvars, dvars, uvars, qvars, avars, rvars, gvars, mvars, cvars, tvars, evars, ovars, wvars, xvars, yvars, zvars>>
    \/ \E sid \in KnownIds, lag \in Lags : ValidateRenew(sid, lag) /\ UNCHANGED <<bvars, dvars, uvars, qvars, avars, rvars, gvars, mvars, cvars, tvars, evars, ovars, wvars, xvars, yvars, zvars>>
    \/ \E sid \in KnownIds : end_session(sid) /\ UNCHANGED <<bvars, dvars, uvars, qvars, avars, rvars, gvars, mvars, cvars, tvars, evars, ovars, wvars, xvars, yvars, zvars>>
    \/ \E u \in Users : get_user_sessions(u) /\ UNCHANGED <<bvars, dvars, uvars, qvars, avars, rvars, gvars, mvars, cvars, tvars, evars, ovars, wvars, xvars, yvars, zvars>>
    \/ \E u \in Users : end_all_user_sessions(u) /\ UNCHANGED <<bvars, dvars, uvars, qvars, avars, rvars, gvars, mvars, cvars, tvars, evars, ovars, wvars, xvars, yvars, zvars>>
    \/ cleanup_expired_sessions /\ UNCHANGED <<bvars, dvars, uvars, qvars, avars, rvars, gvars, mvars, cvars, tvars, evars, ovars, wvars, xvars, yvars, zvars>>
    \/ SessionTick /\ UNCHANGED <<bvars, dvars, uvars, qvars, avars, rvars, gvars, mvars, cvars, tvars, evars, ovars, wvars, xvars, yvars, zvars>>

----------------------------------------------------------------------------
(* Session Manager, calls in flight together: app/core/session.py          *)

\* the validate_session call that last went through its get: the id, the utcnow()
\* it read, the record it holds, whether its setex is still to come (pending), and
\* whether the id had been through an end_all_user_sessions call by then (revoked)
NoRead ==
    [sid |-> InvalidId, t |-> 0, session |-> <<>>, pending |-> FALSE,
     revoked |-> FALSE]

\* the calls in flight together are followed over ConcMaxSessions sessions
ConcMaxSessions == 1

ConcInit ==
    /\ sRead = NoRead
    /\ sEndedAll = {}

\* validate_session up to its setex: get_session, the two tests, the new expires_at
ValidateGet(sid) ==
    /\ ~sRead.pending
    /\ HasSession(sid)
    /\ sess[sid].is_active /\ ~(now > sess[sid].expires_at)
    /\ sRead' = [sid |-> sid, t |-> now,
                 session |-> [sess[sid] EXCEPT !.expires_at = RenewedExpiry(now)],
                 pending |-> TRUE, revoked |-> sid \in sEndedAll]
    /\ UNCHANGED <<svars, sEndedAll>>

\* validate_session from its setex on: the record it holds is written, return True
ValidateSetEx ==
    /\ sRead.pending
    /\ sess' = SetEx(sess, sRead.sid, sRead.session)
    /\ issued' = SetEx(issued, sRead.sid, Issued(sRead.session))
    /\ sessTTL' = SetEx(sessTTL, sRead.sid, now + TimeoutSeconds)
    /\ sLast' = Call("validate", sRead.sid, sRead.session.user_id, TRUE, sRead.t,
                     sRead.session.expires_at)
    /\ sRead' = [sRead EXCEPT !.pending = FALSE]
    /\ UNCHANGED <<now, members, nextId, ended, sEndedAll>>

\* end_all_user_sessions, and the ids the user had when it was called
EndAllUserSessions(u) ==
    /\ end_all_user_sessions(u)
    /\ sEndedAll' = sEndedAll \cup {sid \in DOMAIN issued : issued[sid].user_id = u}
    /\ UNCHANGED sRead

ConcNext ==
    \/ \E u \in Users :
            /\ nextId < ConcMaxSessions
            /\ create_session(u, 0)
            /\ UNCHANGED <<bvars, dvars, uvars, qvars, avars, rvars, gvars, mvars, cvars, tvars, evars, ovars, wvars, xvars, yvars, zvars>>
    \/ \E sid \in KnownIds : ValidateGet(sid) /\ UNCHANGED <<bvars, dvars, uvars, qvars, avars, rvars, gvars, mvars, tvars, evars, ovars, wvars, xvars, yvars, zvars>>
    \/ ValidateSetEx /\ UNCHANGED <<bvars, dvars, uvars, qvars, avars, rvars, gvars, mvars, tvars, evars, ovars, wvars, xvars, yvars, zvars>>
    \/ \E sid \in KnownIds : ValidateMissing(sid) /\ UNCHANGED <<bvars, dvars, uvars, qvars, avars, rvars, gvars, mvars, cvars, tvars, evars, ovars, wvars, xvars, yvars, zvars>>
    \/ \E sid \in KnownIds : ValidateExpired(sid) /\ UNCHANGED <<bvars, dvars, uvars, qvars, avars, rvars, gvars, mvars, cvars, tvars, evars, ovars, wvars, xvars, yvars, zvars>>
    \/ \E sid \in KnownIds : end_session(sid) /\ UNCHANGED <<bvars, dvars, uvars, qvars, avars, rvars, gvars, mvars, cvars, tvars, evars, ovars, wvars, xvars, yvars, zvars>>
    \/ \E u \in Users : get_user_sessions(u) /\ UNCHANGED <<bvars, dvars, uvars, qvars, avars, rvars, gvars, mvars, cvars, tvars, evars, ovars, wvars, xvars, yvars, zvars>>
    \/ \E u \in Users : EndAllUserSessions(u) /\ UNCHANGED <<bvars, dvars, uvars, qvars, avars, rvars, gvars, mvars, tvars, evars, ovars, wvars, xvars, yvars, zvars>>
    \/ SessionTick /\ UNCHANGED <<bvars, dvars, uvars, qvars, avars, rvars, gvars, mvars, cvars, tvars, evars, ovars, wvars, xvars, yvars, zvars>>

----------------------------------------------------------------------------
(* Session Manager, two validate_session calls of one session              *)

\* the two calls
Validators == {1, 2}

NoValidate ==
    [state |-> "idle", sid |-> InvalidId, t |-> 0, read |-> <<>>, session |-> <<>>]

RaceInit == sReads = [c \in Validators |-> NoValidate]

\* the bug of a record built anew at renewal: created_at is lost
RenewedFromScratch(session, t) == SessionData(session.user_id, t)

\* session.expires_at = utcnow() + timeout on the record get_session returned
Renewed(session, t) == [session EXCEPT !.expires_at = RenewedExpiry(t)]

\* validate_session of call c up to its setex: get_session, the two tests, the
\* new expires_at
RaceGet(c, sid) ==
    /\ sReads[c].state = "idle"
    /\ HasSession(sid)
    /\ sess[sid].is_active /\ ~(now > sess[sid].expires_at)
    /\ sReads' = [sReads EXCEPT ![c] =
                    [state |-> "read", sid |-> sid, t |-> now, read |-> sess[sid],
                     session |-> Renewed(sess[sid], now)]]
    /\ UNCHANGED svars

\* validate_session of call c from its setex on: write the record, return True
RaceSetEx(c) ==
    /\ sReads[c].state = "read"
    /\ sess' = SetEx(sess, sReads[c].sid, sReads[c].session)
    /\ issued' = SetEx(issued, sReads[c].sid, Issued(sReads[c].session))
    /\ sessTTL' = SetEx(sessTTL, sReads[c].sid, now + TimeoutSeconds)
    /\ sLast' = Call("validate", sReads[c].sid, sReads[c].session.user_id, TRUE,
                     sReads[c].t, sReads[c].session.expires_at)
    /\ sReads' = [sReads EXCEPT ![c].state = "done"]
    /\ UNCHANGED <<now, members, nextId, ended>>

RaceNext ==
    \/ \E u \in Users :
            /\ nextId < ConcMaxSessions
            /\ create_session(u, 0)
            /\ UNCHANGED <<bvars, dvars, uvars, qvars, avars, rvars, gvars, mvars, cvars, tvars, evars, ovars, wvars, xvars, yvars, zvars>>
    \/ \E c \in Validators, sid \in KnownIds : RaceGet(c, sid) /\ UNCHANGED <<bvars, dvars, uvars, qvars, avars, rvars, gvars, mvars, cvars, tvars, evars, ovars, xvars, yvars, zvars>>
    \/ \E c \in Validators : RaceSetEx(c) /\ UNCHANGED <<bvars, dvars, uvars, qvars, avars, rvars, gvars, mvars, cvars, tvars, evars, ovars, xvars, yvars, zvars>>
    \/ SessionTick /\ UNCHANGED <<bvars, dvars, uvars, qvars, avars, rvars, gvars, mvars, cvars, tvars, evars, ovars, wvars, xvars, yvars, zvars>>

----------------------------------------------------------------------------
(* Brute-Force Guard: app/core/security/brute_force.py                     *)

\* BruteForceProtection.__init__
max_attempts == 5
attempt_window == 300

\* the identifiers record_failure and reset_attempts are called with: a user id
\* and a client address; get_status may be called without a user id
BFUser == "u1"
BFAddr == "ip1"
Identifiers == {BFUser, BFAddr}
NoUser == ""

\* time passes in steps of BFTick seconds; counters are followed up to MaxCount,
\* and up to MaxPending record_failure calls per identifier are between their
\* incr and their expire
BFTick == 100
MaxCount == 6
MaxPending == 1

NoTTL == -1
NoKey == -2

Max2(a, b) == IF a >= b THEN a ELSE b
Min2(a, b) == IF a <= b THEN a ELSE b

NoBFCall ==
    [op |-> "none", id |-> "", user |-> NoUser, ip |-> "", is_blocked |-> FALSE,
     attempts |-> 0, wait_time |-> 0, armed |-> FALSE, cleared |-> FALSE]

BFInit ==
    /\ bfCount = [i \in Identifiers |-> 0]
    /\ bfTTL = [i \in Identifiers |-> NoKey]
    /\ bfPending = [i \in Identifiers |-> 0]
    /\ bfFails = [i \in Identifiers |-> 0]
    /\ bfAge = [i \in Identifiers |-> 0]
    /\ bfLast = NoBFCall

\* a get-then-set increment: with another record_failure call of the identifier
\* in flight both write the same count and one failure is lost
IncrReadModifyWrite(attempts, in_flight) ==
    IF in_flight > 0 THEN attempts ELSE attempts + 1

\* redis.incr(key), one command of the store: the count it finds plus one,
\* however many record_failure calls of the identifier are in flight
Incr(attempts, in_flight) == attempts + 1

\* record_failure, first await: attempts = redis.incr(key); incr creates the key
\* without a TTL and keeps the TTL of a key it finds
RecordFailureIncr(id) ==
    /\ bfCount[id] < MaxCount
    /\ bfCount[id] = 0 => bfPending[id] < MaxPending
    /\ bfCount' = [bfCount EXCEPT ![id] = Incr(@, bfPending[id])]
    /\ bfTTL' = [bfTTL EXCEPT ![id] = IF bfCount[id] = 0 THEN NoTTL ELSE @]
    /\ bfPending' = [bfPending EXCEPT ![id] = IF bfCount[id] = 0 THEN @ + 1 ELSE @]
    /\ bfFails' = [bfFails EXCEPT ![id] = @ + 1]
    /\ bfAge' = [bfAge EXCEPT ![id] = IF bfCount[id] = 0 THEN 0 ELSE @]
    /\ bfLast' = [NoBFCall EXCEPT !.op = "failure", !.id = id]

\* record_failure, second await, when attempts == 1: redis.expire(key, attempt_window)
RecordFailureExpire(id) ==
    /\ bfPending[id] > 0
    /\ bfPending' = [bfPending EXCEPT ![id] = @ - 1]
    /\ bfTTL' = [bfTTL EXCEPT ![id] = IF bfCount[id] = 0 THEN @ ELSE attempt_window]
    /\ bfLast' = [NoBFCall EXCEPT !.op = "expire", !.id = id]
    /\ UNCHANGED <<bfCount, bfFails, bfAge>>

\* reset_attempts: redis.delete(key)
reset_attempts(id) ==
    /\ bfCount' = [bfCount EXCEPT ![id] = 0]
    /\ bfTTL' = [bfTTL EXCEPT ![id] = NoKey]
    /\ bfFails' = [bfFails EXCEPT ![id] = 0]
    /\ bfAge' = [bfAge EXCEPT ![id] = 0]
    /\ bfLast' = [NoBFCall EXCEPT
                    !.op = "reset", !.id = id,
                    !.user = bfLast.user, !.ip = bfLast.ip,
                    !.armed = /\ bfLast.op = "status"
                              /\ bfLast.is_blocked
                              /\ id \in {bfLast.user, bfLast.ip}
                              /\ bfCount[id] >= max_attempts]
    /\ UNCHANGED bfPending

\* the off-by-one bug: total_attempts > self.max_attempts
IsBlockedOffByOne(total_attempts) == total_attempts > max_attempts

\* is_blocked = total_attempts >= self.max_attempts
IsBlocked(total_attempts) == total_attempts >= max_attempts

\* int(x) if x else 0 of redis.get(key); no user id: 0
Attempts(id) == IF id = NoUser THEN 0 ELSE bfCount[id]

\* get_lockout_time: None (here 0: the caller takes "or 0") below max_attempts
\* or without the key, else redis.ttl(key)
get_lockout_time(id) ==
    IF bfCount[id] = 0 \/ bfCount[id] < max_attempts THEN 0 ELSE bfTTL[id]

\* get_status: wait_time
WaitTime(user_id, ip_address, is_blocked) ==
    IF ~is_blocked THEN 0
    ELSE LET w == IF user_id # NoUser THEN get_lockout_time(user_id) ELSE 0
         IN IF w = 0 THEN bfTTL[ip_address] ELSE w

get_status(user_id, ip_address) ==
    /\ LET total_attempts == Max2(Attempts(ip_address), Attempts(user_id))
           is_blocked == IsBlocked(total_attempts)
       IN bfLast' = [NoBFCall EXCEPT
                       !.op = "status", !.user = user_id, !.ip = ip_address,
                       !.is_blocked = is_blocked,
                       !.attempts = total_attempts,
                       !.wait_time = WaitTime(user_id, ip_address, is_blocked),
                       !.cleared = /\ bfLast.op = "reset" /\ bfLast.armed
                                   /\ bfLast.user = user_id
                                   /\ bfLast.ip = ip_address]
    /\ UNCHANGED <<bfCount, bfTTL, bfPending, bfFails, bfAge>>

\* BFTick seconds pass: TTLs run down and the store evicts what has run out
BFTickAction ==
    /\ LET left == [i \in Identifiers |->
                      IF bfTTL[i] > 0 THEN bfTTL[i] - BFTick ELSE bfTTL[i]]
           gone == {i \in Identifiers : bfTTL[i] > 0 /\ left[i] <= 0}
       IN /\ bfTTL' = [i \in Identifiers |-> IF i \in gone THEN NoKey ELSE left[i]]
          /\ bfCount' = [i \in Identifiers |-> IF i \in gone THEN 0 ELSE bfCount[i]]
          /\ bfFails' = [i \in Identifiers |-> IF i \in gone THEN 0 ELSE bfFails[i]]
          /\ bfAge' = [i \in Identifiers |->
                         IF i \in gone \/ bfCount[i] = 0 THEN 0
                         ELSE Min2(bfAge[i] + BFTick, attempt_window)]
    /\ bfLast' = [NoBFCall EXCEPT !.op = "tick"]
    /\ UNCHANGED bfPending

BFNext ==
    \/ \E id \in Identifiers : RecordFailureIncr(id) /\ UNCHANGED <<svars, dvars, uvars, qvars, avars, rvars, gvars, mvars, cvars, tvars, evars, ovars, wvars, xvars, yvars, zvars>>
    \/ \E id \in Identifiers : RecordFailureExpire(id) /\ UNCHANGED <<svars, dvars, uvars, qvars, avars, rvars, gvars, mvars, cvars, tvars, evars, ovars, wvars, xvars, yvars, zvars>>
    \/ \E id \in Identifiers : reset_attempts(id) /\ UNCHANGED <<svars, dvars, uvars, qvars, avars, rvars, gvars, mvars, cvars, tvars, evars, ovars, wvars, xvars, yvars, zvars>>
    \/ \E u \in {NoUser, BFUser} : get_status(u, BFAddr) /\ UNCHANGED <<svars, dvars, uvars, qvars, avars, rvars, gvars, mvars, cvars, tvars, evars, ovars, wvars, xvars, yvars, zvars>>
    \/ BFTickAction /\ UNCHANGED <<svars, dvars, uvars, qvars, avars, rvars, gvars, mvars, cvars, tvars, evars, ovars, wvars, xvars, yvars, zvars>>

----------------------------------------------------------------------------
(* Device Trust Engine: app/core/security/device.py                        *)

DevUsers == {"u1"}

\* user agents as user_agents.parse reads them: browser, OS and device family
UserAgents ==
    {[browser |-> "Chrome", os |-> "Windows", device |-> "Other"],
     [browser |-> "Safari", os |-> "iOS", device |-> "iPhone"]}

Addresses == {"ip1"}

\* what the geolocation lookup answers for a request
NoLocation == [country |-> "", city |-> ""]
Locations ==
    {[country |-> "US", city |-> "New York"], [country |-> "FR", city |-> "Paris"]}

\* DeviceManager.__init__; scores and weights are in hundredths and tenths, so
\* a trust score is in thousandths: 0.7 is 700
trust_threshold == 700
location_weight == 4
history_weight == 3
pattern_weight == 3

\* the clock advances DevTickDays at a time up to MaxDay; the login counter is
\* followed up to MaxLogins
DevTickDays == 30
MaxDay == 60
MaxLogins == 11

\* _generate_fingerprint: sha256 over user agent, address and accept headers
Fingerprint(ua, ip) == <<ua, ip>>

Fingerprints == {Fingerprint(ua, ip) : ua \in UserAgents, ip \in Addresses}

InList(x, list) == \E i \in 1..Len(list) : list[i] = x

\* _calculate_location_score
LocationScore(current_location, known_locations) ==
    IF current_location = NoLocation \/ known_locations = <<>> THEN 50
    ELSE IF \E i \in 1..Len(known_locations) :
                /\ known_locations[i].country = current_location.country
                /\ known_locations[i].city = current_location.city
         THEN 100
    ELSE IF \E i \in 1..Len(known_locations) :
                known_locations[i].country = current_location.country
         THEN 70
    ELSE 30

\* _calculate_history_score
HistoryScore(first_seen, t, total_logins) ==
    IF t - first_seen > 30 THEN 100
    ELSE IF total_logins > 10 THEN 90
    ELSE IF total_logins > 5 THEN 70
    ELSE 50

\* _calculate_pattern_score
PatternScore(current_ua, stored_ua) ==
    IF /\ current_ua.browser = stored_ua.browser
       /\ current_ua.os = stored_ua.os
       /\ current_ua.device = stored_ua.device
    THEN 100
    ELSE IF current_ua.browser = stored_ua.browser /\ current_ua.os = stored_ua.os
    THEN 80
    ELSE 40

\* process_device: the weighted sum
TrustScore(location_score, history_score, pattern_score) ==
    location_score * location_weight
        + history_score * history_weight
        + pattern_score * pattern_weight

\* the bug of a new device scored like a known one at its first login
NewDeviceInfoScored(fp, ua, ip, location, t) ==
    LET score == TrustScore(100, 50, 100)
    IN [fingerprint |-> fp, user_agent |-> ua, ip_address |-> ip,
        location |-> location, first_seen |-> t, last_seen |-> t,
        trust_score |-> score, is_trusted |-> score >= trust_threshold]

\* process_device: DeviceInfo(..., trust_score=0.5, is_trusted=False)
NewDeviceInfo(fp, ua, ip, location, t) ==
    [fingerprint |-> fp, user_agent |-> ua, ip_address |-> ip,
     location |-> location, first_seen |-> t, last_seen |-> t,
     trust_score |-> 500, is_trusted |-> FALSE]

\* the bug of a flag cleared without the score
UntrustedKeepsScore(device_info) == [device_info EXCEPT !.is_trusted = FALSE]

\* mark_device_untrusted: is_trusted = False, trust_score = 0.0
Untrusted(device_info) ==
    [device_info EXCEPT !.is_trusted = FALSE, !.trust_score = 0]

\* mark_device_trusted: is_trusted = True, trust_score = 1.0
Trusted(device_info) ==
    [device_info EXCEPT !.is_trusted = TRUE, !.trust_score = 1000]

HSet(h, k, v) == [x \in DOMAIN h \cup {k} |-> IF x = k THEN v ELSE h[x]]

NoDevCall ==
    [op |-> "none", user |-> "", fp |-> <<>>, new |-> FALSE, found |-> FALSE,
     info |-> <<>>]

DevInit ==
    /\ devNow = 0
    /\ devInfo = [u \in DevUsers |-> <<>>]
    /\ devLocs = [u \in DevUsers |-> <<>>]
    /\ devStats = [u \in DevUsers |-> 0]
    /\ devLast = NoDevCall

\* process_device, stored_data found: update the record and score it
ProcessKnown(u, ua, ip, location) ==
    LET fp == Fingerprint(ua, ip)
        stored == devInfo[u][fp]
        known == devLocs[u]
        known_locations ==
            IF location # NoLocation /\ ~InList(location, known)
            THEN Append(known, location) ELSE known
        total_logins == devStats[u] + 1
        score == TrustScore(LocationScore(location, known_locations),
                            HistoryScore(stored.first_seen, devNow, total_logins),
                            PatternScore(ua, stored.user_agent))
        device_info == [stored EXCEPT !.last_seen = devNow,
                                      !.trust_score = score,
                                      !.is_trusted = score >= trust_threshold]
    IN /\ fp \in DOMAIN devInfo[u]
       /\ devStats[u] < MaxLogins
       /\ devLocs' = [devLocs EXCEPT ![u] = known_locations]
       /\ devStats' = [devStats EXCEPT ![u] = total_logins]
       /\ devInfo' = [devInfo EXCEPT ![u] = HSet(@, fp, device_info)]
       /\ devLast' = [NoDevCall EXCEPT !.op = "process", !.user = u, !.fp = fp,
                                       !.found = TRUE, !.info = device_info]
       /\ UNCHANGED devNow

\* process_device, nothing stored: create the record, the location list and
\* the login counter
ProcessNew(u, ua, ip, location) ==
    LET fp == Fingerprint(ua, ip)
        device_info == NewDeviceInfo(fp, ua, ip, location, devNow)
    IN /\ fp \notin DOMAIN devInfo[u]
       /\ devLocs' = [devLocs EXCEPT ![u] =
                        IF location # NoLocation THEN <<location>> ELSE @]
       /\ devStats' = [devStats EXCEPT ![u] = 1]
       /\ devInfo' = [devInfo EXCEPT ![u] = HSet(@, fp, device_info)]
       /\ devLast' = [NoDevCall EXCEPT !.op = "process", !.user = u, !.fp = fp,
                                       !.new = TRUE, !.info = device_info]
       /\ UNCHANGED devNow

mark_device_trusted(u, fp) ==
    /\ devInfo' = IF fp \in DOMAIN devInfo[u]
                  THEN [devInfo EXCEPT ![u][fp] = Trusted(@)]
                  ELSE devInfo
    /\ devLast' = [NoDevCall EXCEPT !.op = "mark_trusted", !.user = u, !.fp = fp,
                                    !.found = fp \in DOMAIN devInfo[u]]
    /\ UNCHANGED <<devNow, devLocs, devStats>>

mark_device_untrusted(u, fp) ==
    /\ devInfo' = IF fp \in DOMAIN devInfo[u]
                  THEN [devInfo EXCEPT ![u][fp] = Untrusted(@)]
                  ELSE devInfo
    /\ devLast' = [NoDevCall EXCEPT !.op = "mark_untrusted", !.user = u, !.fp = fp,
                                    !.found = fp \in DOMAIN devInfo[u]]
    /\ UNCHANGED <<devNow, devLocs, devStats>>

DevTick ==
    /\ devNow + DevTickDays <= MaxDay
    /\ devNow' = devNow + DevTickDays
    /\ devLast' = [NoDevCall EXCEPT !.op = "tick"]
    /\ UNCHANGED <<devInfo, devLocs, devStats>>

DevNext ==
    \/ \E u \in DevUsers, ua \in UserAgents, ip \in Addresses,
          l \in Locations \cup {NoLocation} :
            ProcessKnown(u, ua, ip, l) /\ UNCHANGED <<svars, bvars, uvars, qvars, avars, rvars, gvars, mvars, cvars, tvars, evars, ovars, wvars, xvars, yvars, zvars>>
    \/ \E u \in DevUsers, ua \in UserAgents, ip \in Addresses,
          l \in Locations \cup {NoLocation} :
            ProcessNew(u, ua, ip, l) /\ UNCHANGED <<svars, bvars, uvars, qvars, avars, rvars, gvars, mvars, cvars, tvars, evars, ovars, wvars, xvars, yvars, zvars>>
    \/ \E u \in DevUsers, fp \in Fingerprints :
            mark_device_trusted(u, fp) /\ UNCHANGED <<svars, bvars, uvars, qvars, avars, rvars, gvars, mvars, cvars, tvars, evars, ovars, wvars, xvars, yvars, zvars>>
    \/ \E u \in DevUsers, fp \in Fingerprints :
            mark_device_untrusted(u, fp) /\ UNCHANGED <<svars, bvars, uvars, qvars, avars, rvars, gvars, mvars, cvars, tvars, evars, ovars, wvars, xvars, yvars, zvars>>
    \/ DevTick /\ UNCHANGED <<svars, bvars, uvars, qvars, avars, rvars, gvars, mvars, cvars, tvars, evars, ovars, wvars, xvars, yvars, zvars>>

----------------------------------------------------------------------------
(* Step-Up Orchestrator: app/core/security/step_up.py                      *)

SUUsers == {"u1"}

\* generate_recovery_codes: range(10)
RecoveryCodeCount == 10

\* the clock runs to MaxSuNow; a user generates codes up to MaxGen times
MaxSuNow == 1
MaxGen == 1

NoTime == -1

\* secrets.token_urlsafe(12): the i-th token of a user's g-th generation; no
\* two tokens are equal
Token(g, i) == <<g, i>>

\* a code that was never generated
WrongCode == <<0, 0>>

\* the codes a caller can present: any token generated so far, and a wrong one
PresentableCodes(u) ==
    {Token(g, i) : g \in 1..suGen[u], i \in 1..RecoveryCodeCount} \cup {WrongCode}

NewCodes(g) == [i \in 1..RecoveryCodeCount |-> Token(g, i)]

\* StepUpMethod(type=kind, enabled, data, last_used)
StepUpMethod(enabled, data, last_used) ==
    [enabled |-> enabled, data |-> data, last_used |-> last_used]

NoSUCall == [op |-> "none", user |-> "", code |-> WrongCode, ret |-> FALSE]

SUInit ==
    /\ suNow = 0
    /\ suMethods = [u \in SUUsers |-> <<>>]
    /\ suGen = [u \in SUUsers |-> 0]
    /\ suAccepts = [u \in SUUsers |-> <<>>]
    /\ suLast = NoSUCall

\* generate_recovery_codes: ten fresh codes replace the stored method
generate_recovery_codes(u) ==
    /\ suGen[u] < MaxGen
    /\ suGen' = [suGen EXCEPT ![u] = @ + 1]
    /\ suMethods' = [suMethods EXCEPT ![u] =
                       HSet(@, "recovery",
                            StepUpMethod(TRUE, NewCodes(suGen[u] + 1), NoTime))]
    /\ suAccepts' = [suAccepts EXCEPT ![u] =
                       [c \in {Token(suGen[u] + 1, i) : i \in 1..RecoveryCodeCount}
                          |-> 0]]
    /\ suLast' = [NoSUCall EXCEPT !.op = "generate_recovery", !.user = u]
    /\ UNCHANGED suNow

\* the bug of a used code left in the list
RemoveNothing(codes, code) == codes

\* list.remove(code): the list without the first occurrence of code
Remove(codes, code) ==
    LET first == CHOOSE i \in 1..Len(codes) :
                     codes[i] = code /\ \A j \in 1..(i - 1) : codes[j] # code
    IN [i \in 1..(Len(codes) - 1) |-> IF i < first THEN codes[i] ELSE codes[i + 1]]

\* verify_recovery_code
verify_recovery_code(u, code) ==
    LET found == "recovery" \in DOMAIN suMethods[u]
        method == suMethods[u]["recovery"]
        ok == /\ found
              /\ method.enabled
              /\ InList(code, method.data)
    IN /\ suMethods' =
            IF ok
            THEN [suMethods EXCEPT ![u]["recovery"] =
                     StepUpMethod(method.enabled, Remove(method.data, code), suNow)]
            ELSE suMethods
       /\ suAccepts' =
            IF ok /\ code \in DOMAIN suAccepts[u]
            THEN [suAccepts EXCEPT ![u][code] = @ + 1]
            ELSE suAccepts
       /\ suLast' = [NoSUCall EXCEPT !.op = "verify_recovery", !.user = u,
                                     !.code = code, !.ret = ok]
       /\ UNCHANGED <<suNow, suGen>>

SUTick ==
    /\ suNow < MaxSuNow
    /\ suNow' = suNow + 1
    /\ suLast' = [NoSUCall EXCEPT !.op = "tick"]
    /\ UNCHANGED <<suMethods, suGen, suAccepts>>

SUNext ==
    \/ \E u \in SUUsers : generate_recovery_codes(u) /\ UNCHANGED <<svars, bvars, dvars, qvars, avars, rvars, gvars, mvars, cvars, tvars, evars, ovars, wvars, xvars, yvars, zvars>>
    \/ \E u \in SUUsers : \E code \in PresentableCodes(u) :
            verify_recovery_code(u, code) /\ UNCHANGED <<svars, bvars, dvars, qvars, avars, rvars, gvars, mvars, cvars, tvars, evars, ovars, wvars, xvars, yvars, zvars>>
    \/ SUTick /\ UNCHANGED <<svars, bvars, dvars, qvars, avars, rvars, gvars, mvars, cvars, tvars, evars, ovars, wvars, xvars, yvars, zvars>>

----------------------------------------------------------------------------
(* Step-Up Orchestrator, verify_recovery_code calls in flight together     *)

\* the calls
Verifiers == {1, 2}

NoVerify ==
    [state |-> "idle", user |-> "", code |-> WrongCode, method |-> <<>>, ret |-> FALSE]

RecoveryInit == suReads = [c \in Verifiers |-> NoVerify]

\* verify_recovery_code of call c up to its hset: hget, the three tests that
\* return False, the code removed from the list in hand
RecoveryHGet(c, u, code) ==
    LET found == "recovery" \in DOMAIN suMethods[u]
        method == suMethods[u]["recovery"]
        ok == /\ found
              /\ method.enabled
              /\ InList(code, method.data)
    IN /\ suReads[c].state = "idle"
       /\ suReads' = [suReads EXCEPT ![c] =
                        IF ok
                        THEN [state |-> "read", user |-> u, code |-> code,
                              method |-> StepUpMethod(method.enabled,
                                                      Remove(method.data, code), suNow),
                              ret |-> FALSE]
                        ELSE [state |-> "done", user |-> u, code |-> code,
                              method |-> <<>>, ret |-> FALSE]]
       /\ suLast' = [NoSUCall EXCEPT !.op = IF ok THEN "hget" ELSE "verify_recovery",
                                     !.user = u, !.code = code]
       /\ UNCHANGED <<suNow, suMethods, suGen, suAccepts>>

\* verify_recovery_code of call c from its hset on: the method in hand is
\* stored, return True
RecoveryHSet(c) ==
    LET u == suReads[c].user
        code == suReads[c].code
    IN /\ suReads[c].state = "read"
       /\ suMethods' = [suMethods EXCEPT ![u] = HSet(@, "recovery", suReads[c].method)]
       /\ suAccepts' =
            IF code \in DOMAIN suAccepts[u]
            THEN [suAccepts EXCEPT ![u][code] = @ + 1]
            ELSE suAccepts
       /\ suReads' = [suReads EXCEPT ![c].state = "done", ![c].ret = TRUE]
       /\ suLast' = [NoSUCall EXCEPT !.op = "verify_recovery", !.user = u,
                                     !.code = code, !.ret = TRUE]
       /\ UNCHANGED <<suNow, suGen>>

RecoveryNext ==
    \/ \E u \in SUUsers : generate_recovery_codes(u) /\ UNCHANGED <<svars, bvars, dvars, qvars, avars, rvars, gvars, mvars, cvars, tvars, evars, ovars, wvars, xvars, yvars, zvars>>
    \/ \E c \in Verifiers, u \in SUUsers : \E code \in PresentableCodes(u) :
            RecoveryHGet(c, u, code) /\ UNCHANGED <<svars, bvars, dvars, qvars, avars, rvars, gvars, mvars, cvars, tvars, evars, ovars, wvars, yvars, zvars>>
    \/ \E c \in Verifiers : RecoveryHSet(c) /\ UNCHANGED <<svars, bvars, dvars, qvars, avars, rvars, gvars, mvars, cvars, tvars, evars, ovars, wvars, yvars, zvars>>

----------------------------------------------------------------------------
(* Step-Up Orchestrator, security questions: app/core/security/step_up.py  *)

\* a string is the sequence of its characters
Space == " "

\* str.lower(), character by character
LowerChar(c) == IF c = "A" THEN "a" ELSE IF c = "B" THEN "b" ELSE c

Lower(s) == [i \in 1..Len(s) |-> LowerChar(s[i])]

\* the bug of answers compared without strip()
StripNothing(s) == s

\* str.strip(): the string without its leading and trailing whitespace
Strip(s) ==
    LET inked == {i \in 1..Len(s) : s[i] # Space}
    IN IF inked = {} THEN <<>>
       ELSE LET first == CHOOSE i \in inked : \A j \in inked : i <= j
                last == CHOOSE i \in inked : \A j \in inked : j <= i
            IN SubSeq(s, first, last)

\* the answers users store and the answers callers present
StoredStrings == {<<"a">>, <<"B", " ">>}
AnswerStrings == StoredStrings \cup {<<" ", "A">>, <<"a", " ", "b">>}

\* a user stores up to MaxQuestions questions; a caller presents up to one more
MaxQuestions == 2
MaxAnswers == MaxQuestions + 1

SeqsUpTo(S, n) == UNION {[1..k -> S] : k \in 0..n}

\* question/answer pairs
Questions(answers) == [i \in 1..Len(answers) |-> [question |-> i, answer |-> answers[i]]]

NoQCall == [op |-> "none", user |-> "", answers |-> <<>>, ret |-> FALSE]

QInit == qLast = NoQCall

\* setup_security_questions
setup_security_questions(u, questions) ==
    /\ suMethods' = [suMethods EXCEPT ![u] =
                       HSet(@, "questions", StepUpMethod(TRUE, questions, NoTime))]
    /\ qLast' = [NoQCall EXCEPT !.op = "setup_questions", !.user = u]
    /\ UNCHANGED <<suNow, suGen, suAccepts, suLast>>

\* all(a1.lower().strip() == a2.lower().strip() for a1, a2 in zip(...))
AnswersMatch(answers, stored_answers) ==
    \A i \in 1..Len(answers) :
        Strip(Lower(answers[i])) = Strip(Lower(stored_answers[i]))

\* verify_security_questions
verify_security_questions(u, answers) ==
    LET found == "questions" \in DOMAIN suMethods[u]
        method == suMethods[u]["questions"]
        stored_answers == [i \in 1..Len(method.data) |-> method.data[i].answer]
        is_valid == /\ found
                    /\ method.enabled
                    /\ Len(answers) = Len(stored_answers)
                    /\ AnswersMatch(answers, stored_answers)
    IN /\ suMethods' =
            IF is_valid
            THEN [suMethods EXCEPT ![u]["questions"] =
                     StepUpMethod(method.enabled, method.data, suNow)]
            ELSE suMethods
       /\ qLast' = [op |-> "verify_questions", user |-> u,
                    answers |-> answers, ret |-> is_valid]
       /\ UNCHANGED <<suNow, suGen, suAccepts, suLast>>

QNext ==
    \/ \E u \in SUUsers : \E answers \in SeqsUpTo(StoredStrings, MaxQuestions) :
            setup_security_questions(u, Questions(answers)) /\ UNCHANGED <<svars, bvars, dvars, avars, rvars, gvars, mvars, cvars, tvars, evars, ovars, wvars, xvars, yvars, zvars>>
    \/ \E u \in SUUsers : \E answers \in SeqsUpTo(AnswerStrings, MaxAnswers) :
            verify_security_questions(u, answers) /\ UNCHANGED <<svars, bvars, dvars, avars, rvars, gvars, mvars, cvars, tvars, evars, ovars, wvars, xvars, yvars, zvars>>

----------------------------------------------------------------------------
(* Step-Up Orchestrator, the verify calls of every kind                    *)

\* StepUpAuth(redis) is given a client that answers str (decode_responses=True,
\* the pool of app/core/redis.py) or bytes (the client's default)
NoClient == "unset"
ClientKinds == {"str", "bytes"}

\* pyotp.random_base32(), and the code pyotp.TOTP(secret) shows at instant t
Secret == "s1"
TotpAt(secret, t) == <<secret, t>>

\* the one-time codes a caller can present: the code of any instant, and a wrong one
TotpCodes == {TotpAt(Secret, t) : t \in 0..MaxSuNow} \cup {TotpAt("s0", 0)}

\* secrets.token_urlsafe(32), and what a caller can present
NoCode == ""
EmailCode == "e1"
EmailCodes == {EmailCode, "e0"}

\* how a call ends: it returns a bool, or raises
Returned(value) == IF value THEN "True" ELSE "False"

\* a verify call as the history keeps it: the kind, the user, how it ended,
\* whether an enabled method of the kind was stored (configured), whether the
\* response was the right one (correct), the user's methods before the call
\* and the utcnow() of the call
NoVCall ==
    [op |-> "none", user |-> "", outcome |-> "none", configured |-> FALSE,
     correct |-> FALSE, before |-> <<>>, t |-> 0]

VCall(op, u, outcome, configured, correct) ==
    [op |-> op, user |-> u, outcome |-> outcome, configured |-> configured,
     correct |-> correct, before |-> suMethods[u], t |-> suNow]

Enabled(u, kind) == kind \in DOMAIN suMethods[u] /\ suMethods[u][kind].enabled

VInit ==
    /\ suClient = NoClient
    /\ suEmail = [u \in SUUsers |-> NoCode]
    /\ vLast = NoVCall

\* StepUpAuth.__init__
StepUpAuthInit(kind) ==
    /\ suClient = NoClient
    /\ suClient' = kind
    /\ UNCHANGED <<suEmail, vLast, uvars, qvars>>

\* setup_totp
setup_totp(u) ==
    /\ suMethods' = [suMethods EXCEPT ![u] =
                       HSet(@, "totp", StepUpMethod(TRUE, [secret |-> Secret], NoTime))]
    /\ vLast' = [NoVCall EXCEPT !.op = "setup_totp", !.user = u]
    /\ UNCHANGED <<suNow, suGen, suAccepts, suLast, suClient, suEmail, qvars>>

\* verify_totp
verify_totp(u, code) ==
    LET found == "totp" \in DOMAIN suMethods[u]
        method == suMethods[u]["totp"]
        is_valid == /\ found
                    /\ method.enabled
                    /\ code = TotpAt(method.data.secret, suNow)
    IN /\ suMethods' =
            IF is_valid
            THEN [suMethods EXCEPT ![u]["totp"] =
                     StepUpMethod(method.enabled, method.data, suNow)]
            ELSE suMethods
       /\ vLast' = VCall("verify_totp", u, Returned(is_valid), Enabled(u, "totp"),
                         is_valid)
       /\ UNCHANGED <<suNow, suGen, suAccepts, suLast, suClient, suEmail, qvars>>

\* generate_recovery_codes and verify_recovery_code, kept in the history
GenerateRecoveryCodes(u) ==
    /\ generate_recovery_codes(u)
    /\ vLast' = [NoVCall EXCEPT !.op = "generate_recovery_codes", !.user = u]
    /\ UNCHANGED <<suClient, suEmail, qvars>>

VerifyRecoveryCode(u, code) ==
    /\ verify_recovery_code(u, code)
    /\ vLast' = VCall("verify_recovery_code", u, Returned(suLast'.ret),
                      Enabled(u, "recovery"), suLast'.ret)
    /\ UNCHANGED <<suClient, suEmail, qvars>>

\* setup_security_questions and verify_security_questions, kept in the history
SetupSecurityQuestions(u, questions) ==
    /\ setup_security_questions(u, questions)
    /\ vLast' = [NoVCall EXCEPT !.op = "setup_security_questions", !.user = u]
    /\ UNCHANGED <<suClient, suEmail>>

VerifySecurityQuestions(u, answers) ==
    /\ verify_security_questions(u, answers)
    /\ vLast' = VCall("verify_security_questions", u, Returned(qLast'.ret),
                      Enabled(u, "questions"), qLast'.ret)
    /\ UNCHANGED <<suClient, suEmail>>

\* send_verification_email: setex of a fresh code
send_verification_email(u) ==
    /\ suEmail' = [suEmail EXCEPT ![u] = EmailCode]
    /\ vLast' = [NoVCall EXCEPT !.op = "send_verification_email", !.user = u]
    /\ UNCHANGED <<suClient, uvars, qvars>>

\* the code's TTL (verification_timeout) runs out
EmailCodeExpires(u) ==
    /\ suEmail[u] # NoCode
    /\ suEmail' = [suEmail EXCEPT ![u] = NoCode]
    /\ vLast' = [NoVCall EXCEPT !.op = "expire", !.user = u]
    /\ UNCHANGED <<suClient, uvars, qvars>>

\* verify_email_code: stored_code.decode() raises on a str
verify_email_code(u, code) ==
    LET stored_code == suEmail[u]
        outcome == IF stored_code = NoCode THEN Returned(FALSE)
                   ELSE IF suClient = "str" THEN "AttributeError"
                   ELSE Returned(stored_code = code)
    IN /\ vLast' = VCall("verify_email_code", u, outcome, stored_code # NoCode,
                         stored_code = code)
       /\ UNCHANGED <<suClient, suEmail, uvars, qvars>>

VNext ==
    \/ \E kind \in ClientKinds :
            StepUpAuthInit(kind) /\ UNCHANGED <<svars, bvars, dvars, avars, rvars, gvars, mvars, cvars, tvars, ovars, wvars, xvars, yvars, zvars>>
    \/ \E u \in SUUsers :
            /\ suClient # NoClient
            /\ setup_totp(u)
            /\ UNCHANGED <<svars, bvars, dvars, avars, rvars, gvars, mvars, cvars, tvars, ovars, wvars, xvars, yvars, zvars>>
    \/ \E u \in SUUsers, code \in TotpCodes :
            /\ suClient # NoClient
            /\ verify_totp(u, code)
            /\ UNCHANGED <<svars, bvars, dvars, avars, rvars, gvars, mvars, cvars, tvars, ovars, wvars, xvars, yvars, zvars>>
    \/ \E u \in SUUsers :
            /\ suClient # NoClient
            /\ GenerateRecoveryCodes(u)
            /\ UNCHANGED <<svars, bvars, dvars, avars, rvars, gvars, mvars, cvars, tvars, ovars, wvars, xvars, yvars, zvars>>
    \/ \E u \in SUUsers, code \in {Token(1, 1), WrongCode} :
            /\ suClient # NoClient
            /\ VerifyRecoveryCode(u, code)
            /\ UNCHANGED <<svars, bvars, dvars, avars, rvars, gvars, mvars, cvars, tvars, ovars, wvars, xvars, yvars, zvars>>
    \/ \E u \in SUUsers, answer \in StoredStrings :
            /\ suClient # NoClient
            /\ SetupSecurityQuestions(u, Questions(<<answer>>))
            /\ UNCHANGED <<svars, bvars, dvars, avars, rvars, gvars, mvars, cvars, tvars, ovars, wvars, xvars, yvars, zvars>>
    \/ \E u \in SUUsers, answer \in AnswerStrings :
            /\ suClient # NoClient
            /\ VerifySecurityQuestions(u, <<answer>>)
            /\ UNCHANGED <<svars, bvars, dvars, avars, rvars, gvars, mvars, cvars, tvars, ovars, wvars, xvars, yvars, zvars>>
    \/ \E u \in SUUsers :
            /\ suClient # NoClient
            /\ send_verification_email(u)
            /\ UNCHANGED <<svars, bvars, dvars, avars, rvars, gvars, mvars, cvars, tvars, ovars, wvars, xvars, yvars, zvars>>
    \/ \E u \in SUUsers :
            /\ suClient # NoClient
            /\ EmailCodeExpires(u)
            /\ UNCHANGED <<svars, bvars, dvars, avars, rvars, gvars, mvars, cvars, tvars, ovars, wvars, xvars, yvars, zvars>>
    \/ \E u \in SUUsers, code \in EmailCodes :
            /\ suClient # NoClient
            /\ verify_email_code(u, code)
            /\ UNCHANGED <<svars, bvars, dvars, avars, rvars, gvars, mvars, cvars, tvars, ovars, wvars, xvars, yvars, zvars>>
    \/ SUTick /\ UNCHANGED <<svars, bvars, dvars, qvars, avars, rvars, gvars, mvars, cvars, tvars, evars, ovars, wvars, xvars, yvars, zvars>>

----------------------------------------------------------------------------
(* Session Analytics: app/core/analytics/session.py                        *)

AUsers == {"u1"}

\* user_agents.parse(ua_string): device, browser and os family of a user agent
AUserAgents ==
    {[device |-> "Other", browser |-> "Chrome", os |-> "Windows"],
     [device |-> "Other", browser |-> "Firefox", os |-> "Windows"],
     [device |-> "iPhone", browser |-> "Mobile Safari", os |-> "iOS"]}

AAddresses == {"ip1", "ip2", "ip3"}

NoCountry == "None"

\* geo_reader.city(ip).country.name; None when the lookup raises
CountryOf(ip) ==
    IF ip = "ip1" THEN "United States"
    ELSE IF ip = "ip2" THEN "France"
    ELSE NoCountry

\* the log holds up to MaxEvents events
MaxEvents == 3

\* lrange(key, 0, 100): the stop index is inclusive
LRangeStop == 100

LoginEvent(ua, ip, success) ==
    [device_type |-> ua.device, browser |-> ua.browser, os |-> ua.os,
     country |-> CountryOf(ip), success |-> success]

\* hincrby(key, field, 1) on a hash held as a function
HIncr(h, field) ==
    [f \in DOMAIN h \cup {field} |-> IF f = field
                                     THEN (IF f \in DOMAIN h THEN h[f] ELSE 0) + 1
                                     ELSE h[f]]

\* the bug of a pipeline that stops after its first command
LoginStatsTotalOnly(stats, success) == HIncr(stats, "total_logins")

\* the pipeline's two hincrby on user_stats:{user_id}
LoginStats(stats, success) ==
    HIncr(HIncr(stats, "total_logins"),
          IF success THEN "successful_logins" ELSE "failed_logins")

NoACall == [op |-> "none", user |-> "", ua |-> <<>>, ip |-> "", anomalies |-> <<>>]

AInit ==
    /\ aLog = [u \in AUsers |-> <<>>]
    /\ aStats = [u \in AUsers |-> <<>>]
    /\ aDevices = [u \in AUsers |-> <<>>]
    /\ aBrowsers = [u \in AUsers |-> <<>>]
    /\ aCountries = [u \in AUsers |-> <<>>]
    /\ aLast = NoACall

\* track_login: lpush of the event, then the pipeline of hincrby commands
track_login(u, ua, ip, success) ==
    LET event == LoginEvent(ua, ip, success)
    IN /\ Len(aLog[u]) < MaxEvents
       /\ aLog' = [aLog EXCEPT ![u] = <<event>> \o @]
       /\ aStats' = [aStats EXCEPT ![u] = LoginStats(@, success)]
       /\ aDevices' = [aDevices EXCEPT ![u] = HIncr(@, event.device_type)]
       /\ aBrowsers' = [aBrowsers EXCEPT ![u] = HIncr(@, event.browser)]
       /\ aCountries' = [aCountries EXCEPT ![u] =
                           IF event.country # NoCountry THEN HIncr(@, event.country) ELSE @]
       /\ aLast' = [NoACall EXCEPT !.op = "track_login", !.user = u, !.ua = ua, !.ip = ip]

\* lrange(f"login_events:{user_id}", 0, 100)
LRange(events) == SubSeq(events, 1, Min2(Len(events), LRangeStop + 1))

\* the values the successful events of the window carry
SeenLocations(events) ==
    {events[i].country : i \in {j \in 1..Len(events) :
                                    events[j].success /\ events[j].country # NoCountry}}
SeenDevices(events) ==
    {events[i].device_type : i \in {j \in 1..Len(events) : events[j].success}}
SeenBrowsers(events) ==
    {events[i].browser : i \in {j \in 1..Len(events) : events[j].success}}

LocationAnomaly(country, locations) ==
    IF country # NoCountry /\ country \notin locations
    THEN <<<<"Unusual login location: ", country>>>> ELSE <<>>

DeviceAnomaly(device, devices) ==
    IF device \notin devices THEN <<<<"Unusual device: ", device>>>> ELSE <<>>

\* the bug of a browser never reported
BrowserAnomalyNever(browser, browsers) == <<>>

BrowserAnomaly(browser, browsers) ==
    IF browser \notin browsers THEN <<<<"Unusual browser: ", browser>>>> ELSE <<>>

Anomalies(events, ua, ip) ==
    IF events = <<>> THEN <<>>
    ELSE LocationAnomaly(CountryOf(ip), SeenLocations(events))
         \o DeviceAnomaly(ua.device, SeenDevices(events))
         \o BrowserAnomaly(ua.browser, SeenBrowsers(events))

\* detect_anomalies
detect_anomalies(u, ua, ip) ==
    /\ aLast' = [op |-> "detect_anomalies", user |-> u, ua |-> ua, ip |-> ip,
                 anomalies |-> Anomalies(LRange(aLog[u]), ua, ip)]
    /\ UNCHANGED <<aLog, aStats, aDevices, aBrowsers, aCountries>>

ANext ==
    \/ \E u \in AUsers, ua \in AUserAgents, ip \in AAddresses, success \in BOOLEAN :
            track_login(u, ua, ip, success) /\ UNCHANGED <<svars, bvars, dvars, uvars, qvars, rvars, gvars, mvars, cvars, tvars, evars, ovars, wvars, xvars, yvars, zvars>>
    \/ \E u \in AUsers, ua \in AUserAgents, ip \in AAddresses :
            detect_anomalies(u, ua, ip) /\ UNCHANGED <<svars, bvars, dvars, uvars, qvars, rvars, gvars, mvars, cvars, tvars, evars, ovars, wvars, xvars, yvars, zvars>>

----------------------------------------------------------------------------
(* Session Analytics, track_login command by command                       *)

\* up to MaxInFlight track_login calls are between their lpush and their pipeline
MaxInFlight == 2

\* the calls followed command by command come from one user agent and address
TUserAgent == [device |-> "Other", browser |-> "Chrome", os |-> "Windows"]
TAddress == "ip1"

TInit == aPending = <<>>

\* hget(key, field) as an int, 0 when the field is absent
HGet(h, field) == IF field \in DOMAIN h THEN h[field] ELSE 0

RemoveAt(seq, i) == SubSeq(seq, 1, i - 1) \o SubSeq(seq, i + 1, Len(seq))

\* track_login up to its pipeline: the event is built and pushed on the log
TrackLoginLPush(u, success) ==
    LET event == LoginEvent(TUserAgent, TAddress, success)
    IN /\ Len(aLog[u]) < MaxEvents
       /\ Len(aPending) < MaxInFlight
       /\ aLog' = [aLog EXCEPT ![u] = <<event>> \o @]
       /\ aPending' = Append(aPending, [user |-> u, event |-> event])
       /\ aLast' = [NoACall EXCEPT !.op = "lpush", !.user = u]
       /\ UNCHANGED <<aStats, aDevices, aBrowsers, aCountries>>

\* track_login from pipe.execute() on: the hincrby commands run in one MULTI/EXEC
TrackLoginExecute(i) ==
    LET u == aPending[i].user
        event == aPending[i].event
    IN /\ aStats' = [aStats EXCEPT ![u] = LoginStats(@, event.success)]
       /\ aDevices' = [aDevices EXCEPT ![u] = HIncr(@, event.device_type)]
       /\ aBrowsers' = [aBrowsers EXCEPT ![u] = HIncr(@, event.browser)]
       /\ aCountries' = [aCountries EXCEPT ![u] =
                           IF event.country # NoCountry THEN HIncr(@, event.country) ELSE @]
       /\ aPending' = RemoveAt(aPending, i)
       /\ aLast' = [NoACall EXCEPT !.op = "track_login", !.user = u,
                                   !.ua = TUserAgent, !.ip = TAddress]
       /\ UNCHANGED aLog

\* the call ends between the two: the request is cancelled or the process stops
TrackLoginInterrupted(i) ==
    /\ aPending' = RemoveAt(aPending, i)
    /\ aLast' = [NoACall EXCEPT !.op = "interrupted", !.user = aPending[i].user]
    /\ UNCHANGED <<aLog, aStats, aDevices, aBrowsers, aCountries>>

TNext ==
    \/ \E u \in AUsers, success \in BOOLEAN :
            TrackLoginLPush(u, success) /\ UNCHANGED <<svars, bvars, dvars, uvars, qvars, rvars, gvars, mvars, cvars, evars, ovars, wvars, xvars, yvars, zvars>>
    \/ \E i \in DOMAIN aPending :
            TrackLoginExecute(i) /\ UNCHANGED <<svars, bvars, dvars, uvars, qvars, rvars, gvars, mvars, cvars, evars, ovars, wvars, xvars, yvars, zvars>>
    \/ \E i \in DOMAIN aPending :
            TrackLoginInterrupted(i) /\ UNCHANGED <<svars, bvars, dvars, uvars, qvars, rvars, gvars, mvars, cvars, evars, ovars, wvars, xvars, yvars, zvars>>

----------------------------------------------------------------------------
(* Session Analytics, detect_anomalies over a long log                     *)

\* the requests of the long log: two user agents from one address
WUserAgents ==
    {[device |-> "Other", browser |-> "Chrome", os |-> "Windows"],
     [device |-> "iPhone", browser |-> "Mobile Safari", os |-> "iOS"]}
WAddress == "ip1"

\* a user logs in one request at a time, up to MaxSingles times in a row, or
\* LRangeStop times in a row with the same request and outcome
MaxSingles == 2

\* hincrby(key, field, 1), n times
HIncrBy(h, field, n) ==
    [f \in DOMAIN h \cup {field} |-> IF f = field
                                     THEN (IF f \in DOMAIN h THEN h[f] ELSE 0) + n
                                     ELSE h[f]]

\* n track_login calls in a row with the same request and outcome
TrackLoginRepeated(u, ua, success, n) ==
    LET event == LoginEvent(ua, WAddress, success)
    IN /\ aLog' = [aLog EXCEPT ![u] = [i \in 1..n |-> event] \o @]
       /\ aStats' = [aStats EXCEPT ![u] =
                       HIncrBy(HIncrBy(@, "total_logins", n),
                               IF success THEN "successful_logins" ELSE "failed_logins", n)]
       /\ aDevices' = [aDevices EXCEPT ![u] = HIncrBy(@, event.device_type, n)]
       /\ aBrowsers' = [aBrowsers EXCEPT ![u] = HIncrBy(@, event.browser, n)]
       /\ aCountries' = [aCountries EXCEPT ![u] =
                           IF event.country # NoCountry
                           THEN HIncrBy(@, event.country, n) ELSE @]
       /\ aLast' = [NoACall EXCEPT !.op = "track_login", !.user = u, !.ua = ua,
                                   !.ip = WAddress]

WNext ==
    \/ \E u \in AUsers, ua \in WUserAgents, success \in BOOLEAN :
            /\ Len(aLog[u]) % LRangeStop < MaxSingles
            /\ TrackLoginRepeated(u, ua, success, 1)
            /\ UNCHANGED <<svars, bvars, dvars, uvars, qvars, rvars, gvars, mvars, cvars, tvars, evars, ovars, wvars, xvars, yvars, zvars>>
    \/ \E u \in AUsers, ua \in WUserAgents, success \in BOOLEAN :
            /\ Len(aLog[u]) < LRangeStop
            /\ TrackLoginRepeated(u, ua, success, LRangeStop)
            /\ UNCHANGED <<svars, bvars, dvars, uvars, qvars, rvars, gvars, mvars, cvars, tvars, evars, ovars, wvars, xvars, yvars, zvars>>
    \/ \E u \in AUsers, ua \in WUserAgents :
            detect_anomalies(u, ua, WAddress) /\ UNCHANGED <<svars, bvars, dvars, uvars, qvars, rvars, gvars, mvars, cvars, tvars, evars, ovars, wvars, xvars, yvars, zvars>>

----------------------------------------------------------------------------
(* Session Analytics, get_user_stats over timestamped events               *)

\* the clock advances in steps of ATick seconds up to MaxANow
ATick == 60
MaxANow == 120

DurInit == aNow = 0

\* the request of the timestamped log
DUserAgent == [device |-> "Other", browser |-> "Chrome", os |-> "Windows"]

\* LoginEvent(..., timestamp=datetime.utcnow(), ..., success=success)
LoginEventAt(t, success) ==
    [device_type |-> DUserAgent.device, browser |-> DUserAgent.browser,
     os |-> DUserAgent.os, country |-> CountryOf(WAddress), success |-> success,
     timestamp |-> t]

\* track_login at utcnow() = aNow
TrackLoginAt(u, success) ==
    LET event == LoginEventAt(aNow, success)
    IN /\ Len(aLog[u]) < MaxEvents
       /\ aLog' = [aLog EXCEPT ![u] = <<event>> \o @]
       /\ aStats' = [aStats EXCEPT ![u] = LoginStats(@, success)]
       /\ aDevices' = [aDevices EXCEPT ![u] = HIncr(@, event.device_type)]
       /\ aBrowsers' = [aBrowsers EXCEPT ![u] = HIncr(@, event.browser)]
       /\ aCountries' = [aCountries EXCEPT ![u] =
                           IF event.country # NoCountry THEN HIncr(@, event.country) ELSE @]
       /\ aLast' = [op |-> "track_login", user |-> u]
       /\ UNCHANGED aNow

\* for i in range(len(events) - 1): current = events[i], next_event = events[i + 1];
\* when both are successful, (next_event.timestamp - current.timestamp).total_seconds()
Durations(events) ==
    LET pairs == SelectSeq([i \in 1..(Len(events) - 1) |-> i],
                           LAMBDA i : events[i].success /\ events[i + 1].success)
    IN [k \in 1..Len(pairs) |->
            events[pairs[k] + 1].timestamp - events[pairs[k]].timestamp]

RECURSIVE SumSeq(_)
SumSeq(s) == IF s = <<>> THEN 0 ELSE Head(s) + SumSeq(Tail(s))

\* sum(durations) / len(durations) if durations else 0, as numerator and
\* denominator
AvgDuration(durations) ==
    IF durations = <<>> THEN [sum |-> 0, len |-> 1]
    ELSE [sum |-> SumSeq(durations), len |-> Len(durations)]

\* get_user_stats: average_session_duration over lrange(login_events, 0, -1)
get_user_stats(u) ==
    /\ aLast' = [op |-> "get_user_stats", user |-> u,
                 durations |-> Durations(aLog[u]),
                 average_session_duration |-> AvgDuration(Durations(aLog[u]))]
    /\ UNCHANGED <<aLog, aStats, aDevices, aBrowsers, aCountries, aNow>>

ATickAction ==
    /\ aNow + ATick <= MaxANow
    /\ aNow' = aNow + ATick
    /\ aLast' = [op |-> "tick", user |-> ""]
    /\ UNCHANGED <<aLog, aStats, aDevices, aBrowsers, aCountries>>

DurNext ==
    \/ \E u \in AUsers, success \in BOOLEAN :
            TrackLoginAt(u, success) /\ UNCHANGED <<svars, bvars, dvars, uvars, qvars, rvars, gvars, mvars, cvars, tvars, evars, ovars, wvars, xvars, zvars>>
    \/ \E u \in AUsers : get_user_stats(u) /\ UNCHANGED <<svars, bvars, dvars, uvars, qvars, rvars, gvars, mvars, cvars, tvars, evars, ovars, wvars, xvars, zvars>>
    \/ ATickAction /\ UNCHANGED <<svars, bvars, dvars, uvars, qvars, rvars, gvars, mvars, cvars, tvars, evars, ovars, wvars, xvars, zvars>>

----------------------------------------------------------------------------
(* Shared store client: app/core/redis.py                                  *)

RedisInit ==
    /\ redisPool = FALSE
    /\ storeUp = TRUE

\* init_redis_pool: ConnectionPool.from_url
init_redis_pool ==
    /\ ~redisPool
    /\ redisPool' = TRUE
    /\ UNCHANGED storeUp

\* close_redis_pool
close_redis_pool ==
    /\ redisPool
    /\ redisPool' = FALSE
    /\ UNCHANGED storeUp

\* the store goes away and comes back; commands sent to it meanwhile raise
StoreOutage ==
    /\ storeUp' = ~storeUp
    /\ UNCHANGED redisPool

\* get_redis: a client, or None without a pool
get_redis == redisPool

----------------------------------------------------------------------------
(* Security Gateway: app/core/middleware/security.py                       *)

\* a path is the sequence of its pieces; exclude_paths as app/main.py sets it
exclude_paths == {<<"/health">>, <<"/metrics">>}

GwPaths == {<<"/health">>, <<"/health", "z">>, <<"/api">>}

\* path.startswith(exclude_path)
StartsWith(path, prefix) ==
    /\ Len(prefix) <= Len(path)
    /\ SubSeq(path, 1, Len(prefix)) = prefix

\* the Authorization header: no credential, or the credential of user u1
NoToken == ""
Tokens == {NoToken, "t1"}

\* the user a credential was issued to
CredentialUser(token) == IF token = "t1" THEN "u1" ELSE NoUser

\* requests reach the Gateway from one user agent and one address
GwUserAgent == [browser |-> "Chrome", os |-> "Windows", device |-> "Other"]
GwLocations == {NoLocation, [country |-> "US", city |-> "New York"]}

GwRequests ==
    [path : GwPaths, token : Tokens, ua : {GwUserAgent}, ip : {BFAddr}]

\* the Gateway is followed up to GwMaxLogins device observations per user
GwMaxLogins == 3

NoResponse ==
    [status |-> 0, forwarded |-> FALSE, raised |-> "", headers |-> <<>>, body |-> <<>>]

\* call_next(request): the downstream handler's response
HandlerResponse ==
    [NoResponse EXCEPT !.status = 200, !.forwarded = TRUE,
                       !.body = [message |-> <<"success">>]]

Raised(exception) == [NoResponse EXCEPT !.status = 500, !.raised = exception]

\* the headers dispatch sets on the handler's response
HardeningHeaders ==
    [h \in {"X-Content-Type-Options", "X-Frame-Options", "X-XSS-Protection",
            "Strict-Transport-Security"} |->
        IF h = "X-Content-Type-Options" THEN "nosniff"
        ELSE IF h = "X-Frame-Options" THEN "DENY"
        ELSE IF h = "X-XSS-Protection" THEN "1; mode=block"
        ELSE "max-age=31536000; includeSubDomains"]

WithHeaders(response, headers) == [response EXCEPT !.headers = headers]

\* _should_process
should_process(request) ==
    ~\E exclude_path \in exclude_paths : StartsWith(request.path, exclude_path)

\* _get_user_id: None without a token, and None with one
get_user_id(request) == IF request.token = NoToken THEN NoUser ELSE NoUser

\* _check_brute_force: the 429 response of a blocked status
TooManyAttempts(wait_time) ==
    [NoResponse EXCEPT
        !.status = 429,
        !.body = [detail |-> <<"Too many attempts. Try again in ", wait_time,
                               " seconds.">>]]

\* get_available_methods: the kinds of the user's enabled methods
get_available_methods(user_id) ==
    {kind \in DOMAIN suMethods[user_id] : suMethods[user_id][kind].enabled}

\* _check_device: what it answers for a processed device
DeviceResponse(device_info, methods) ==
    IF device_info.is_trusted THEN NoResponse
    ELSE IF methods = {}
    THEN [NoResponse EXCEPT
            !.status = 403,
            !.body = [detail |-> <<"Device not trusted. Please set up additional authentication methods.">>]]
    ELSE [NoResponse EXCEPT
            !.status = 428,
            !.body = [detail |-> <<"Additional verification required.">>,
                      methods |-> methods,
                      device_info |-> [fingerprint |-> device_info.fingerprint,
                                       location |-> device_info.location,
                                       trust_score |-> device_info.trust_score]]]

NoGwCall ==
    [op |-> "none", request |-> <<>>, user |-> NoUser, response |-> NoResponse,
     is_blocked |-> FALSE, wait_time |-> 0, processed |-> FALSE,
     methods_queried |-> FALSE, wrote |-> FALSE, after_mark |-> FALSE]

GwInit ==
    /\ gwRedis = FALSE
    /\ gw428 = {}
    /\ gwMarked = {}
    /\ gwLast = NoGwCall

\* process_device for either kind of fingerprint
process_device(u, ua, ip, location) ==
    /\ devStats[u] < GwMaxLogins
    /\ \/ ProcessKnown(u, ua, ip, location)
       \/ ProcessNew(u, ua, ip, location)

\* _check_device(request, user_id)
check_device(request, user_id, location) ==
    LET pair == <<user_id, Fingerprint(request.ua, request.ip)>>
    IN /\ gwRedis /\ storeUp
       /\ process_device(user_id, request.ua, request.ip, location)
       /\ LET response == DeviceResponse(devLast'.info, get_available_methods(user_id))
          IN /\ gwLast' = [NoGwCall EXCEPT
                             !.op = "check_device", !.request = request,
                             !.user = user_id, !.response = response,
                             !.processed = TRUE,
                             !.methods_queried = ~devLast'.info.is_trusted,
                             !.wrote = TRUE,
                             !.after_mark = pair \in gwMarked]
             /\ gw428' = IF response.status = 428 THEN gw428 \cup {pair} ELSE gw428
       /\ gwMarked' = gwMarked \ {pair}
       /\ UNCHANGED <<gwRedis, rvars>>

\* dispatch
dispatch(request, location) ==
    LET user_id == get_user_id(request)
        total_attempts == Max2(Attempts(request.ip), Attempts(user_id))
        is_blocked == IsBlocked(total_attempts)
        wait_time == WaitTime(user_id, request.ip, is_blocked)
        GwCall(response) ==
            [NoGwCall EXCEPT !.op = "dispatch", !.request = request,
                             !.user = user_id, !.response = response]
    IN IF ~gwRedis /\ ~get_redis
       THEN \* _init_components raises
            /\ gwLast' = GwCall(Raised("RuntimeError"))
            /\ UNCHANGED <<gwRedis, gw428, gwMarked, dvars, rvars>>
       ELSE /\ gwRedis' = TRUE
            /\ UNCHANGED rvars
            /\ IF ~should_process(request)
               THEN /\ gwLast' = GwCall(HandlerResponse)
                    /\ UNCHANGED <<gw428, gwMarked, dvars>>
               ELSE IF ~storeUp
               THEN /\ gwLast' = GwCall(Raised("ConnectionError"))
                    /\ UNCHANGED <<gw428, gwMarked, dvars>>
               ELSE IF is_blocked
               THEN /\ gwLast' = [GwCall(TooManyAttempts(wait_time)) EXCEPT
                                    !.is_blocked = TRUE, !.wait_time = wait_time]
                    /\ UNCHANGED <<gw428, gwMarked, dvars>>
               ELSE IF user_id # NoUser
               THEN /\ process_device(user_id, request.ua, request.ip, location)
                    /\ LET methods == get_available_methods(user_id)
                           answer == DeviceResponse(devLast'.info, methods)
                           response == IF answer = NoResponse
                                       THEN WithHeaders(HandlerResponse, HardeningHeaders)
                                       ELSE answer
                       IN gwLast' = [GwCall(response) EXCEPT
                                       !.processed = TRUE, !.wrote = TRUE,
                                       !.methods_queried = ~devLast'.info.is_trusted]
                    /\ UNCHANGED <<gw428, gwMarked>>
               ELSE /\ gwLast' = GwCall(WithHeaders(HandlerResponse, HardeningHeaders))
                    /\ UNCHANGED <<gw428, gwMarked, dvars>>

\* mark_device_trusted, called once the user has passed a challenge
GwMarkTrusted(u, fp) ==
    /\ mark_device_trusted(u, fp)
    /\ gwMarked' = IF <<u, fp>> \in gw428 THEN gwMarked \cup {<<u, fp>>} ELSE gwMarked
    /\ gwLast' = [NoGwCall EXCEPT !.op = "mark_trusted"]
    /\ UNCHANGED <<gwRedis, gw428, rvars>>

GNext ==
    \/ init_redis_pool /\ UNCHANGED <<svars, bvars, dvars, uvars, qvars, avars, gvars, mvars, cvars, tvars, evars, ovars, wvars, xvars, yvars, zvars>>
    \/ close_redis_pool /\ UNCHANGED <<svars, bvars, dvars, uvars, qvars, avars, gvars, mvars, cvars, tvars, evars, ovars, wvars, xvars, yvars, zvars>>
    \/ StoreOutage /\ UNCHANGED <<svars, bvars, dvars, uvars, qvars, avars, gvars, mvars, cvars, tvars, evars, ovars, wvars, xvars, yvars, zvars>>
    \/ RecordFailureIncr(BFAddr) /\ UNCHANGED <<svars, dvars, uvars, qvars, avars, rvars, gvars, mvars, cvars, tvars, evars, ovars, wvars, xvars, yvars, zvars>>
    \/ RecordFailureExpire(BFAddr) /\ UNCHANGED <<svars, dvars, uvars, qvars, avars, rvars, gvars, mvars, cvars, tvars, evars, ovars, wvars, xvars, yvars, zvars>>
    \/ \E u \in SUUsers : generate_recovery_codes(u) /\ UNCHANGED <<svars, bvars, dvars, qvars, avars, rvars, gvars, mvars, cvars, tvars, evars, ovars, wvars, xvars, yvars, zvars>>
    \/ \E u \in DevUsers : GwMarkTrusted(u, Fingerprint(GwUserAgent, BFAddr)) /\ UNCHANGED <<svars, bvars, uvars, qvars, avars, mvars, cvars, tvars, evars, ovars, wvars, xvars, yvars, zvars>>
    \/ \E request \in GwRequests, l \in GwLocations :
            check_device(request, CredentialUser("t1"), l) /\ UNCHANGED <<svars, bvars, uvars, qvars, avars, mvars, cvars, tvars, evars, ovars, wvars, xvars, yvars, zvars>>
    \/ \E request \in GwRequests, l \in GwLocations :
            dispatch(request, l) /\ UNCHANGED <<svars, bvars, uvars, qvars, avars, mvars, cvars, tvars, evars, ovars, wvars, xvars, yvars, zvars>>

----------------------------------------------------------------------------
(* Session middleware: app/core/middleware/session.py                      *)

\* exclude_paths, the default of SessionMiddleware.__init__
session_exclude_paths ==
    {<<"/docs">>, <<"/redoc">>, <<"/openapi.json">>, <<"/health">>, <<"/metrics">>}

SmPaths == {<<"/health">>, <<"/health", "z">>, <<"/api">>}

\* SmMaxSessions sessions of one user are followed, their writes taking no time
SmUsers == {"u1"}
SmLags == {0}
SmMaxSessions == 1

\* request.headers.get("X-Session-ID") of a request without the header
NoSessionId == -1

\* seconds by which the server's local time is ahead of UTC
UtcOffsets == {0, 3600}

\* int(naive.timestamp()): a naive datetime is read as local time
Timestamp(naive, offset) == naive - offset

\* Response(status_code=401, content=...)
Unauthorized(content) == [NoResponse EXCEPT !.status = 401, !.body = content]

\* the two headers dispatch sets on the handler's response
SessionHeaders(session_id, session, offset) ==
    [h \in {"X-Session-ID", "X-Session-Expires"} |->
        IF h = "X-Session-ID" THEN session_id
        ELSE Timestamp(session.expires_at, offset)]

NoSmCall ==
    [op |-> "none", path |-> <<>>, session_id |-> NoSessionId,
     response |-> NoResponse, state_session |-> FALSE, store |-> TRUE,
     validated |-> FALSE, is_valid |-> FALSE, expires_at |-> 0]

SmInit == smLast = NoSmCall

\* SessionMiddleware.dispatch
session_dispatch(path, session_id, lag, offset) ==
    LET SmCall(response) ==
            [NoSmCall EXCEPT !.op = "dispatch", !.path = path,
                             !.session_id = session_id, !.response = response,
                             !.store = get_redis /\ storeUp]
    IN IF path \in session_exclude_paths \/ session_id = NoSessionId
       THEN /\ smLast' = SmCall(HandlerResponse)
            /\ UNCHANGED svars
       ELSE IF ~get_redis
       THEN \* SessionManager(None): self.redis.get raises
            /\ smLast' = SmCall(Raised("AttributeError"))
            /\ UNCHANGED svars
       ELSE IF ~storeUp
       THEN /\ smLast' = SmCall(Raised("ConnectionError"))
            /\ UNCHANGED svars
       ELSE /\ \/ ValidateMissing(session_id)
               \/ ValidateExpired(session_id)
               \/ ValidateRenew(session_id, lag)
            /\ LET is_valid == sLast'.ret
                   Validated(response) ==
                       [SmCall(response) EXCEPT !.validated = TRUE,
                                                !.is_valid = is_valid,
                                                !.expires_at = sLast'.exp]
               IN smLast' =
                    IF ~is_valid
                    THEN Validated(Unauthorized("Invalid or expired session"))
                    ELSE IF ~HasSession(session_id)'
                    THEN Validated(Unauthorized("Session not found"))
                    ELSE [Validated(WithHeaders(HandlerResponse,
                                SessionHeaders(session_id, sess'[session_id], offset)))
                            EXCEPT !.state_session = TRUE]

SmNext ==
    \/ init_redis_pool /\ UNCHANGED <<svars, bvars, dvars, uvars, qvars, avars, gvars, mvars, cvars, tvars, evars, ovars, wvars, xvars, yvars, zvars>>
    \/ close_redis_pool /\ UNCHANGED <<svars, bvars, dvars, uvars, qvars, avars, gvars, mvars, cvars, tvars, evars, ovars, wvars, xvars, yvars, zvars>>
    \/ StoreOutage /\ UNCHANGED <<svars, bvars, dvars, uvars, qvars, avars, gvars, mvars, cvars, tvars, evars, ovars, wvars, xvars, yvars, zvars>>
    \/ \E u \in SmUsers, lag \in SmLags :
            /\ get_redis /\ storeUp
            /\ nextId < SmMaxSessions
            /\ create_session(u, lag)
            /\ UNCHANGED <<bvars, dvars, uvars, qvars, avars, rvars, gvars, mvars, cvars, tvars, evars, ovars, wvars, xvars, yvars, zvars>>
    \/ \E sid \in KnownIds :
            /\ get_redis /\ storeUp
            /\ end_session(sid)
            /\ UNCHANGED <<bvars, dvars, uvars, qvars, avars, rvars, gvars, mvars, cvars, tvars, evars, ovars, wvars, xvars, yvars, zvars>>
    \/ SessionTick /\ UNCHANGED <<bvars, dvars, uvars, qvars, avars, rvars, gvars, mvars, cvars, tvars, evars, ovars, wvars, xvars, yvars, zvars>>
    \/ \E path \in SmPaths, session_id \in KnownIds \cup {NoSessionId},
          lag \in SmLags, offset \in UtcOffsets :
            session_dispatch(path, session_id, lag, offset)
                /\ UNCHANGED <<bvars, dvars, uvars, qvars, avars, rvars, gvars, cvars, tvars, evars, ovars, wvars, xvars, yvars, zvars>>

----------------------------------------------------------------------------
(* Device Trust Engine, process_device with what it was given              *)

NoObservation == [location |-> NoLocation, known_locations |-> <<>>, t |-> 0]

ObsInit ==
    /\ devSeen = NoObservation
    /\ devCalls = [u \in DevUsers |-> 0]
    /\ devDistrusted = {}

\* process_device calls per user
MaxCalls == 3

\* request.client.host of the requests
ClientHosts == {"ip1", "ip2", "ip3"}

\* _get_location(ip_address): a place for the addresses the lookup knows,
\* nothing for the others
get_location(ip_address) ==
    CASE ip_address = "ip1" -> [country |-> "US", city |-> "New York"]
      [] ip_address = "ip2" -> [country |-> "FR", city |-> "Paris"]
      [] OTHER -> NoLocation

\* process_device(request, user_id), the history keeping the location the lookup
\* answered, the known locations it found stored and its utcnow()
ProcessDevice(u, ua, ip) ==
    /\ devCalls[u] < MaxCalls
    /\ process_device(u, ua, ip, get_location(ip))
    /\ devSeen' = [location |-> get_location(ip), known_locations |-> devLocs[u],
                   t |-> devNow]
    /\ devCalls' = [devCalls EXCEPT ![u] = @ + 1]

\* mark_device_untrusted of a stored device, remembered until mark_device_trusted
MarkUntrusted(u, fp) ==
    /\ fp \in DOMAIN devInfo[u]
    /\ mark_device_untrusted(u, fp)
    /\ devDistrusted' = devDistrusted \cup {<<u, fp>>}
    /\ UNCHANGED <<devSeen, devCalls>>

MarkTrusted(u, fp) ==
    /\ fp \in DOMAIN devInfo[u]
    /\ mark_device_trusted(u, fp)
    /\ devDistrusted' = devDistrusted \ {<<u, fp>>}
    /\ UNCHANGED <<devSeen, devCalls>>

ObsNext ==
    \/ \E u \in DevUsers, ua \in UserAgents, ip \in ClientHosts :
            ProcessDevice(u, ua, ip) /\ UNCHANGED <<svars, bvars, uvars, qvars, avars, rvars, gvars, mvars, cvars, tvars, evars, wvars, xvars, yvars, zvars>>
    \/ \E u \in DevUsers : \E fp \in DOMAIN devInfo[u] :
            MarkUntrusted(u, fp) /\ UNCHANGED <<svars, bvars, uvars, qvars, avars, rvars, gvars, mvars, cvars, tvars, evars, wvars, xvars, yvars>>
    \/ \E u \in DevUsers : \E fp \in DOMAIN devInfo[u] :
            MarkTrusted(u, fp) /\ UNCHANGED <<svars, bvars, uvars, qvars, avars, rvars, gvars, mvars, cvars, tvars, evars, wvars, xvars, yvars>>
    \/ DevTick /\ UNCHANGED <<svars, bvars, uvars, qvars, avars, rvars, gvars, mvars, cvars, tvars, evars, ovars, wvars, xvars, yvars, zvars>>

----------------------------------------------------------------------------
(* Specifications                                                          *)

Init == SessionInit /\ BFInit /\ DevInit /\ SUInit /\ QInit /\ AInit /\ RedisInit /\ GwInit
          /\ SmInit /\ ConcInit /\ TInit /\ VInit /\ ObsInit
          /\ RaceInit /\ RecoveryInit /\ DurInit

SpecSession == Init /\ [][SessionNext]_vars

SpecSessionConc == Init /\ [][ConcNext]_vars

SpecValidateRace == Init /\ [][RaceNext]_vars

SpecBF == Init /\ [][BFNext]_vars

SpecDevice == Init /\ [][DevNext]_vars

SpecDeviceObs == Init /\ [][ObsNext]_vars

SpecStepUp == Init /\ [][SUNext]_vars

SpecRecoveryRace == Init /\ [][RecoveryNext]_vars

SpecQuestions == Init /\ [][QNext]_vars

SpecVerify == Init /\ [][VNext]_vars

SpecAnalytics == Init /\ [][ANext]_vars

SpecTrackLogin == Init /\ [][TNext]_vars

SpecAnomalyWindow == Init /\ [][WNext]_vars

SpecDurations == Init /\ [][DurNext]_vars

SpecGateway == Init /\ [][GNext]_vars

SpecSessionMw == Init /\ [][SmNext]_vars

----------------------------------------------------------------------------
(* Session Manager: properties                                             *)

\* C1: validate_session called directly after create_session of the same id
\* returns True, and the stored expires_at is then the validate's utcnow() plus
\* the timeout, which is not earlier than the expires_at create wrote.
C1_ValidateAfterCreate ==
    (sLast.op = "validate" /\ sLast.after # -1) =>
        /\ sLast.ret
        /\ HasSession(sLast.sid)
        /\ sess[sLast.sid].expires_at = sLast.t + timeout * 60
        /\ sess[sLast.sid].expires_at >= sLast.after

\* a validate directly after a create that took some time: the expiry has moved
C1_Witness ==
    /\ sLast.op = "validate" /\ sLast.after # -1 /\ sLast.ret
    /\ sess[sLast.sid].expires_at > sLast.after

\* C2: once end_session(id) has completed the record is absent, the id is in no
\* user's membership set, and every later validate_session(id) returns False.
C2_EndIsFinal ==
    \A sid \in ended :
        /\ ~HasSession(sid)
        /\ \A u \in Users : sid \notin members[u]
        /\ (sLast.op = "validate" /\ sLast.sid = sid) => ~sLast.ret

\* C3: validate_session of a session whose expires_at has passed returns False
\* and leaves neither the record nor the id in the owner's membership set.
C3_ExpiredIsRemoved ==
    (/\ sLast.op = "validate"
     /\ sLast.sid \in DOMAIN issued
     /\ sLast.t > issued[sLast.sid].expires_at) =>
        /\ ~sLast.ret
        /\ ~HasSession(sLast.sid)
        /\ sLast.sid \notin members[issued[sLast.sid].user_id]

\* C21: a cleanup_expired_sessions call completes without raising, removes
\* exactly the stored records whose expires_at has passed and leaves the others
\* as they were, returns the number it removed, and leaves nothing behind that
\* an immediate second sweep would remove.
C21_SweepTerminatesExpired ==
    [][sLast'.op \in {"sweep", "sweep_raised"} =>
            /\ sLast'.op = "sweep"
            /\ sLast'.exp = Cardinality(ExpiredStored)
            /\ sess' = Restrict(sess, DOMAIN sess \ ExpiredStored)
            /\ ExpiredStored' = {}]_vars

\* the sessions get_user_sessions would list for u
Listed(u) == UserSessions(u)

\* C22: right after end_all_user_sessions(u) get_user_sessions(u) lists nothing,
\* every validate_session called later with an id the user had at that call
\* returns False, and the call leaves the other users' lists as they were; end_session of
\* one of the n sessions listed for a user leaves the other n - 1 listed.
C22_EndAllRevokesEverySession ==
    /\ [](sLast.op = "end_all" => Listed(sLast.user) = {})
    /\ []((sLast.op = "validate" /\ sLast.ret /\ ~sRead.pending) => ~sRead.revoked)
    /\ [][sLast'.op = "end_all" =>
            \A m \in Users \ {sLast'.user} : Listed(m)' = Listed(m)]_vars
    /\ [][sLast'.op = "end" =>
            \A u \in Users : Listed(u)' = Listed(u) \ {sLast'.sid}]_vars

\* C32: when the second of two validate_session calls that read the same live
\* session returns, it returns True, the record is stored and its id is in the
\* owner's set, expires_at is the utcnow() + timeout of one of the two calls and
\* not yet past when both calls took no longer than the timeout, and every other
\* field is as the calls read it.
C32_RenewalRaceLastWriteWins ==
    [][(/\ \A c \in Validators : sReads'[c].state = "done"
        /\ \E c \in Validators : sReads[c].state = "read"
        /\ sReads[1].sid = sReads[2].sid)
       => LET sid == sReads[1].sid
              masked(session) == [session EXCEPT !.expires_at = 0]
          IN /\ sLast'.op = "validate" /\ sLast'.sid = sid /\ sLast'.ret
             /\ sid \in DOMAIN sess'
             /\ sid \in members'[sess'[sid].user_id]
             /\ (\A c \in Validators : now' - sReads[c].t <= TimeoutSeconds)
                    => ~(now' > sess'[sid].expires_at)
             /\ sess'[sid].expires_at \in
                    {sReads[c].t + TimeoutSeconds : c \in Validators}
             /\ \A c \in Validators : masked(sess'[sid]) = masked(sReads[c].read)]_vars

\* both calls read the session before either wrote it, at different instants,
\* and the call that read first wrote last
C32_Witness ==
    /\ \A c \in Validators : sReads[c].state = "done" /\ sReads[c].sid = 1
    /\ sReads[1].read = sReads[2].read
    /\ sReads[1].t < sReads[2].t
    /\ 1 \in DOMAIN sess /\ sess[1].expires_at = sReads[1].t + TimeoutSeconds

\* C34: a session that end_session has ended has no record in the store,
\* whatever validate_session call had read it before, and no validate_session
\* call that begins afterwards finds it live.
C34_EndIsFinal ==
    /\ [](\A sid \in ended : ~HasSession(sid))
    /\ [][(sRead'.pending /\ ~sRead.pending) => sRead'.sid \notin ended]_vars

\* C35: every session record in the store has its id in its user's set of
\* session ids, so that end_all_user_sessions of the user ends it.
C35_StoredSessionsAreMembers ==
    \A sid \in DOMAIN sess : sid \in members[sess[sid].user_id]

\* get_user_stats and get_active_sessions: scard(user_sessions:{user_id})
ActiveSessions(u) == Cardinality(members[u])

\* C36: every id in a user's set of session ids has a record in the store, and
\* the active-session count, the size of that set, is the number of the user's
\* stored sessions.
C36_NoStaleMembers ==
    \A u \in Users :
        /\ \A sid \in members[u] : HasSession(sid)
        /\ ActiveSessions(u) =
               Cardinality({sid \in DOMAIN sess : sess[sid].user_id = u})

----------------------------------------------------------------------------
(* Brute-Force Guard: properties                                           *)

\* the identifiers a get_status call looked at
StatusIds == {bfLast.user, bfLast.ip} \ {NoUser}

\* C4: get_status reports blocked exactly when the larger of the user-scoped and
\* the address-scoped counter is at least 5 and that counter's key exists, and
\* attempts is that larger count: after 4 failures in the window blocked is
\* false with attempts = 4, from the 5th on it is true.
C4_BlockedIffFiveAttempts ==
    bfLast.op = "status" =>
        LET stored == {bfCount[i] : i \in StatusIds}
            recorded == {bfFails[i] : i \in StatusIds}
        IN /\ bfLast.is_blocked =
                (\E i \in StatusIds : bfTTL[i] # NoKey /\ bfCount[i] >= 5)
           /\ bfLast.attempts \in stored
           /\ \A n \in stored : n <= bfLast.attempts
           /\ (4 \in recorded /\ \A n \in recorded : n <= 4) =>
                  (~bfLast.is_blocked /\ bfLast.attempts = 4)
           /\ (\E n \in recorded : n >= 5) => bfLast.is_blocked

\* get_status answers blocked right after the fifth failure of an identifier
C4_Witness ==
    /\ bfLast.op = "status" /\ bfLast.is_blocked /\ bfLast.attempts = 5
    /\ \E i \in StatusIds : bfFails[i] = 5

\* C5: when get_status reports blocked, one reset_attempts call makes the very
\* next get_status for the same user and address report blocked = false with
\* attempts = 0.
C5_SuccessClearsBlock ==
    (bfLast.op = "status" /\ bfLast.cleared) =>
        (~bfLast.is_blocked /\ bfLast.attempts = 0)

\* C6: whenever get_status reports blocked its wait_time is greater than 0.
C6_BlockedWaitPositive ==
    (bfLast.op = "status" /\ bfLast.is_blocked) => bfLast.wait_time > 0

\* C7: once attempt_window has passed since the failure that created a counter,
\* the counter is gone: get_status no longer reports blocked on its account and
\* no key is left in the store without a TTL.
C7_LockoutEndsByItself ==
    /\ \A i \in Identifiers : bfAge[i] >= 300 => bfTTL[i] # NoTTL
    /\ (bfLast.op = "status" /\ \A i \in StatusIds : bfAge[i] >= 300 \/ bfCount[i] = 0)
           => ~bfLast.is_blocked

\* C29: a stored counter expires attempt_window seconds after the failure that
\* created it: its TTL is attempt_window less the time since that failure, and a
\* failure that finds the counter stored leaves its TTL as it was.
C29_ExpiryFixedAtFirstFailure ==
    /\ [](\A id \in Identifiers :
            bfCount[id] > 0 => bfTTL[id] = attempt_window - bfAge[id])
    /\ [][\A id \in Identifiers :
            (bfLast'.op = "failure" /\ bfLast'.id = id /\ bfCount[id] > 0) =>
                bfTTL'[id] = bfTTL[id]]_vars

\* C30: a blocked get_status answers the TTL of the user's counter whenever the
\* user's key is stored, the TTL of the address's counter when it is not, and
\* the larger of the two counts as attempts.
C30_WaitPrefersUserCounter ==
    (bfLast.op = "status" /\ bfLast.is_blocked) =>
        /\ bfLast.wait_time =
              IF bfLast.user # NoUser /\ bfTTL[bfLast.user] # NoKey
              THEN bfTTL[bfLast.user]
              ELSE bfTTL[bfLast.ip]
        /\ bfLast.attempts = Max2(Attempts(bfLast.ip), Attempts(bfLast.user))

\* C31: the counter of an identifier equals the number of record_failure calls
\* made for it since the counter was created, whatever calls were in flight
\* together, and get_status answers blocked once five were made.
C31_NoFailureLost ==
    /\ \A id \in Identifiers : bfCount[id] = bfFails[id]
    /\ (bfLast.op = "status" /\ \E i \in StatusIds : bfFails[i] >= max_attempts)
           => bfLast.is_blocked

\* five failures of the user counted while the first call is still between its
\* incr and its expire, and get_status answers blocked
C31_Witness ==
    /\ bfLast.op = "status" /\ bfLast.user = BFUser /\ bfLast.is_blocked
    /\ bfFails[BFUser] = 5 /\ bfCount[BFUser] = 5
    /\ bfPending[BFUser] > 0

----------------------------------------------------------------------------
(* Device Trust Engine: properties                                         *)

\* C8: process_device for a fingerprint the user has no stored record of
\* returns and stores a record with trust_score 0.5 and is_trusted false.
C8_NewDeviceStartsNeutral ==
    (devLast.op = "process" /\ devLast.new) =>
        /\ devLast.info.trust_score = 500
        /\ ~devLast.info.is_trusted
        /\ devLast.fp \in DOMAIN devInfo[devLast.user]
        /\ devInfo[devLast.user][devLast.fp] = devLast.info

\* a second device of a user with logins and a known location, seen first
C8_Witness ==
    /\ devLast.op = "process" /\ devLast.new
    /\ devLast.info.location # NoLocation
    /\ Cardinality(DOMAIN devInfo[devLast.user]) = 2
    /\ devNow > 0

WellScored(device_info) ==
    /\ 0 <= device_info.trust_score
    /\ device_info.trust_score <= 1000
    /\ device_info.is_trusted = (device_info.trust_score >= 700)

\* C9: every DeviceInfo stored or returned has 0 <= trust_score <= 1 and
\* is_trusted = (trust_score >= 0.7), and the weighted sum stays in [0, 1] for
\* every combination of the three scores.
C9_TrustScoreInRange ==
    /\ \A u \in DevUsers : \A fp \in DOMAIN devInfo[u] : WellScored(devInfo[u][fp])
    /\ devLast.op = "process" => WellScored(devLast.info)
    /\ \A l \in {100, 70, 30, 50}, h \in {100, 90, 70, 50}, p \in {100, 80, 40} :
           0 <= TrustScore(l, h, p) /\ TrustScore(l, h, p) <= 1000

\* a known device that its score, not a mark, makes trusted
C9_Witness ==
    /\ devLast.op = "process" /\ devLast.found
    /\ devLast.info.is_trusted /\ devLast.info.trust_score < 1000
    /\ \E fp \in DOMAIN devInfo[devLast.user] :
           ~devInfo[devLast.user][fp].is_trusted

C27_LoginCounterCountsCalls ==
    \A u \in DevUsers : devStats[u] = devCalls[u]

C39_DistrustPersists ==
    (devLast.op = "process" /\ <<devLast.user, devLast.fp>> \in devDistrusted)
        => ~devLast.info.is_trusted

----------------------------------------------------------------------------
(* Step-Up Orchestrator: properties                                        *)

StoredCodes(u) ==
    IF "recovery" \in DOMAIN suMethods[u] THEN suMethods[u]["recovery"].data ELSE <<>>

\* C10: a recovery code of the stored list is accepted exactly once: the call
\* that presents it first returns true and removes it, every later call with it
\* returns false, and the codes not yet presented stay in the list.
C10_RecoveryCodeSingleUse ==
    /\ \A u \in SUUsers : \A c \in DOMAIN suAccepts[u] :
           /\ suAccepts[u][c] <= 1
           /\ InList(c, StoredCodes(u)) = (suAccepts[u][c] = 0)
    /\ \A u \in SUUsers :
           Len(StoredCodes(u)) =
               Cardinality({c \in DOMAIN suAccepts[u] : suAccepts[u][c] = 0})
    /\ suLast.op = "verify_recovery" =>
           /\ suLast.ret => /\ suLast.code \in DOMAIN suAccepts[suLast.user]
                            /\ suAccepts[suLast.user][suLast.code] = 1
           /\ (~suLast.ret /\ suLast.code \in DOMAIN suAccepts[suLast.user]) =>
                  suAccepts[suLast.user][suLast.code] = 1

\* a code is refused at its second use while other codes are still unused
C10_Witness ==
    /\ suLast.op = "verify_recovery" /\ ~suLast.ret
    /\ suLast.code \in DOMAIN suAccepts[suLast.user]
    /\ suAccepts[suLast.user][suLast.code] = 1
    /\ Len(StoredCodes(suLast.user)) > 0
    /\ Len(StoredCodes(suLast.user)) < 10

\* C37: whatever verify_recovery_code calls are in flight together, a stored
\* code is accepted by at most one call, and once no call is in flight no
\* accepted code is in the stored list.
C37_SingleUseUnderConcurrency ==
    \A u \in SUUsers : \A code \in DOMAIN suAccepts[u] :
        /\ suAccepts[u][code] <= 1
        /\ (/\ \A c \in Verifiers : suReads[c].state # "read"
            /\ suAccepts[u][code] >= 1) => ~InList(code, StoredCodes(u))

----------------------------------------------------------------------------
(* Step-Up Orchestrator, security questions: properties                    *)

\* the answers stored for the user of the last call
StoredAnswers ==
    LET data == suMethods[qLast.user]["questions"].data
    IN [i \in 1..Len(data) |-> data[i].answer]

\* text without the whitespace around it
RECURSIVE Trimmed(_)
Trimmed(x) ==
    IF x = <<>> THEN x
    ELSE IF Head(x) = " " THEN Trimmed(Tail(x))
    ELSE IF x[Len(x)] = " " THEN Trimmed(SubSeq(x, 1, Len(x) - 1))
    ELSE x

\* x and y are the same text once surrounding whitespace is trimmed and case
\* is ignored
SameAnswer(x, y) ==
    LET tx == Trimmed(x)
        ty == Trimmed(y)
    IN /\ Len(tx) = Len(ty)
       /\ \A i \in 1..Len(tx) : LowerChar(tx[i]) = LowerChar(ty[i])

\* C11: with questions stored, verify_security_questions returns true exactly
\* when the answer list is as long as the stored list and every answer equals
\* the stored answer at its position after trimming whitespace and ignoring
\* case; a list of another length returns false, and so do the right answers
\* in another order.
C11_QuestionsAllOrNothing ==
    (qLast.op = "verify_questions" /\ "questions" \in DOMAIN suMethods[qLast.user]) =>
        /\ qLast.ret =
               (/\ Len(qLast.answers) = Len(StoredAnswers)
                /\ \A i \in 1..Len(StoredAnswers) :
                       SameAnswer(qLast.answers[i], StoredAnswers[i]))
        /\ Len(qLast.answers) # Len(StoredAnswers) => ~qLast.ret
        /\ (/\ Len(StoredAnswers) = 2
            /\ ~SameAnswer(StoredAnswers[1], StoredAnswers[2])
            /\ qLast.answers = <<StoredAnswers[2], StoredAnswers[1]>>) => ~qLast.ret

\* answers that differ from the stored ones in case and in surrounding
\* whitespace only are accepted
C11_Witness ==
    /\ qLast.op = "verify_questions" /\ qLast.ret
    /\ "questions" \in DOMAIN suMethods[qLast.user]
    /\ Len(StoredAnswers) = 2
    /\ \A i \in 1..2 : qLast.answers[i] # StoredAnswers[i]
    /\ suMethods[qLast.user]["questions"].last_used = suNow

----------------------------------------------------------------------------
(* Step-Up Orchestrator, the verify calls of every kind: properties        *)

VerifyOps ==
    {"verify_totp", "verify_recovery_code", "verify_security_questions",
     "verify_email_code"}

\* the kind of method a verify call is about
KindOf(op) ==
    IF op = "verify_totp" THEN "totp"
    ELSE IF op = "verify_recovery_code" THEN "recovery"
    ELSE IF op = "verify_security_questions" THEN "questions"
    ELSE "email"

\* C24: a verify call of any kind returns False, and does not raise, for a wrong
\* response to a configured method, and raises, rather than returning False,
\* when no enabled method of that kind is stored for the user.
C24_WrongIsFalseMissingRaises ==
    vLast.op \in VerifyOps =>
        /\ (vLast.configured /\ ~vLast.correct) => vLast.outcome = "False"
        /\ ~vLast.configured => vLast.outcome \notin {"True", "False"}

----------------------------------------------------------------------------
(* Session Analytics: properties                                           *)

\* the log of the user of the last call
LastLog == aLog[aLast.user]

\* every event of the log is a successful login from one device family, one
\* browser family and one country
ConsistentLog(events) ==
    /\ events # <<>>
    /\ \A i \in 1..Len(events) :
           /\ events[i].success
           /\ events[i].device_type = events[1].device_type
           /\ events[i].browser = events[1].browser
           /\ events[i].country = events[1].country

\* C12: detect_anomalies returns no anomaly when the user's log is empty; with
\* a log of successful logins from one device, browser and country, a request
\* from a browser family not in the log gets at least one anomaly and a request
\* equal to the log in device, browser and country gets none.
C12_AnomaliesAgainstHistory ==
    aLast.op = "detect_anomalies" =>
        /\ LastLog = <<>> => aLast.anomalies = <<>>
        /\ ConsistentLog(LastLog) =>
               /\ aLast.ua.browser # LastLog[1].browser => Len(aLast.anomalies) >= 1
               /\ (/\ aLast.ua.browser = LastLog[1].browser
                   /\ aLast.ua.device = LastLog[1].device_type
                   /\ CountryOf(aLast.ip) = LastLog[1].country) => aLast.anomalies = <<>>

\* a request from the history's device with another browser is reported for the
\* browser alone
C12_Witness ==
    /\ aLast.op = "detect_anomalies"
    /\ ConsistentLog(LastLog) /\ Len(LastLog) >= 2
    /\ aLast.ua.device = LastLog[1].device_type
    /\ CountryOf(aLast.ip) = LastLog[1].country
    /\ aLast.ua.browser # LastLog[1].browser
    /\ Len(aLast.anomalies) = 1

\* the three counters of user_stats:{user_id}
TotalLogins(u) == HGet(aStats[u], "total_logins")
SuccessfulLogins(u) == HGet(aStats[u], "successful_logins")
FailedLogins(u) == HGet(aStats[u], "failed_logins")

\* C23: whatever track_login calls have run, completed or interrupted between
\* the lpush and the pipeline, total_logins = successful_logins + failed_logins
\* and total_logins is at most the length of the user's log; a call adds exactly
\* one event to the log when it pushes, and when it completes adds 1 to
\* total_logins and 1 to the one of successful_logins and failed_logins that
\* its outcome names.
C23_CountersFollowLog ==
    /\ [](\A u \in AUsers :
            /\ TotalLogins(u) = SuccessfulLogins(u) + FailedLogins(u)
            /\ TotalLogins(u) <= Len(aLog[u]))
    /\ [][\A u \in AUsers :
            /\ (aLast'.op = "lpush" /\ aLast'.user = u) =>
                    /\ Len(aLog'[u]) = Len(aLog[u]) + 1
                    /\ aStats'[u] = aStats[u]
            /\ (aLast'.op = "track_login" /\ aLast'.user = u) =>
                    /\ aLog'[u] = aLog[u]
                    /\ TotalLogins(u)' = TotalLogins(u) + 1
                    /\ \/ /\ SuccessfulLogins(u)' = SuccessfulLogins(u) + 1
                          /\ FailedLogins(u)' = FailedLogins(u)
                       \/ /\ SuccessfulLogins(u)' = SuccessfulLogins(u)
                          /\ FailedLogins(u)' = FailedLogins(u) + 1]_vars

\* a successful and a failed call have completed and one more was interrupted
C23_Witness ==
    \E u \in AUsers :
        /\ aLast.op = "track_login"
        /\ SuccessfulLogins(u) = 1 /\ FailedLogins(u) = 1
        /\ Len(aLog[u]) = 3
        /\ aPending = <<>>

\* C33: detect_anomalies reports, for the device, the browser and the country of
\* the request, one anomaly for each value that none of the user's last 100
\* successful logins carries; failed logins take no place among the 100 and add
\* no value.
C33_BaselineIsLastHundredSuccesses ==
    (aLast.op = "detect_anomalies" /\ LastLog # <<>>) =>
        LET successful == SelectSeq(LastLog, LAMBDA event : event.success)
            baseline == SubSeq(successful, 1, Min2(Len(successful), 100))
        IN aLast.anomalies =
               LocationAnomaly(CountryOf(aLast.ip), SeenLocations(baseline))
               \o DeviceAnomaly(aLast.ua.device, SeenDevices(baseline))
               \o BrowserAnomaly(aLast.ua.browser, SeenBrowsers(baseline))

\* C38: the average_session_duration that get_user_stats answers is never
\* negative: every duration that enters the average is at least 0, and the
\* average is 0 when the log has no two adjacent successful events.
C38_AverageDurationNotNegative ==
    aLast.op = "get_user_stats" =>
        /\ \A k \in 1..Len(aLast.durations) : aLast.durations[k] >= 0
        /\ aLast.average_session_duration.sum >= 0
        /\ (~\E i \in 1..(Len(LastLog) - 1) : LastLog[i].success /\ LastLog[i + 1].success)
               => aLast.average_session_duration.sum = 0

----------------------------------------------------------------------------
(* Security Gateway: properties                                            *)

C14_UntrustedNeverForwarded ==
    (/\ gwLast.op = "dispatch"
     /\ CredentialUser(gwLast.request.token) # NoUser
     /\ should_process(gwLast.request)
     /\ gwLast.response.raised = ""
     /\ gwLast.response.status # 429) =>
        LET u == CredentialUser(gwLast.request.token)
            fp == Fingerprint(gwLast.request.ua, gwLast.request.ip)
            methods == get_available_methods(u)
        IN /\ gwLast.processed
           /\ fp \in DOMAIN devInfo[u]
           /\ ~devInfo[u][fp].is_trusted =>
                  /\ ~gwLast.response.forwarded
                  /\ IF methods = {}
                     THEN gwLast.response.status = 403
                     ELSE /\ gwLast.response.status = 428
                          /\ gwLast.response.body.methods = methods
                          /\ gwLast.response.body.device_info =
                                 [fingerprint |-> fp,
                                  location |-> devInfo[u][fp].location,
                                  trust_score |-> devInfo[u][fp].trust_score]

\* C15: when get_status reports blocked for a request that is not excluded,
\* dispatch answers 429 with wait_seconds in the body equal to the status'
\* wait time, and runs neither process_device nor get_available_methods nor
\* the handler.
C15_BlockedShortCircuits ==
    (gwLast.op = "dispatch" /\ gwLast.is_blocked) =>
        /\ gwLast.response.status = 429
        /\ ~gwLast.response.forwarded
        /\ ~gwLast.processed /\ ~gwLast.methods_queried /\ ~gwLast.wrote
        /\ "wait_seconds" \in DOMAIN gwLast.response.body
        /\ gwLast.response.body.wait_seconds = gwLast.wait_time

\* C16: every response dispatch returns for a request that is not excluded
\* carries the four hardening headers, the 429, 428 and 403 answers included.
C16_HeadersOnEveryResponse ==
    (/\ gwLast.op = "dispatch"
     /\ should_process(gwLast.request)
     /\ gwLast.response.raised = "") =>
        \A h \in DOMAIN HardeningHeaders :
            /\ h \in DOMAIN gwLast.response.headers
            /\ gwLast.response.headers[h] = HardeningHeaders[h]

\* C17: a request on an excluded path is forwarded and the handler's response
\* returned as it is, with no check and no write to the store, blocked address
\* or not.
C17_ExcludedPassesUnchanged ==
    (gwLast.op = "dispatch" /\ ~should_process(gwLast.request)) =>
        /\ gwLast.response = HandlerResponse
        /\ ~gwLast.processed /\ ~gwLast.methods_queried /\ ~gwLast.wrote

\* C19: with the store unavailable, a request that is not excluded is forwarded
\* unchecked and gets the handler's response, not an error.
C19_ChecksFailOpen ==
    (/\ gwLast.op = "dispatch"
     /\ should_process(gwLast.request)
     /\ ~storeUp) =>
        /\ gwLast.response.forwarded
        /\ gwLast.response.raised = ""
        /\ gwLast.response.status = 200

\* C40: a request whose path is not one of exclude_paths reaches the handler
\* only through the checks: its response carries the headers dispatch sets after
\* the brute-force check, and with a user's credential the device was processed.
C40_OnlyListedPathsExempt ==
    (/\ gwLast.op = "dispatch"
     /\ gwLast.request.path \notin exclude_paths
     /\ gwLast.response.forwarded)
        => /\ gwLast.response.headers = HardeningHeaders
           /\ gwLast.request.token # NoToken => gwLast.processed

----------------------------------------------------------------------------
(* Session middleware: properties                                          *)

\* C18: with the store available, a non-excluded request whose session id fails
\* validate_session is answered 401 and not forwarded; one whose session id
\* validates is forwarded and its response carries X-Session-ID equal to the id
\* and X-Session-Expires equal to the renewed expires_at; one without a session
\* id is forwarded and its response carries no session header.
C18_SessionMiddlewareContract ==
    (smLast.op = "dispatch" /\ smLast.path \notin session_exclude_paths /\ smLast.store) =>
        IF smLast.session_id = NoSessionId
        THEN /\ smLast.response.forwarded
             /\ smLast.response.headers = <<>>
        ELSE /\ smLast.validated
             /\ ~smLast.is_valid =>
                    /\ smLast.response.status = 401
                    /\ ~smLast.response.forwarded
             /\ smLast.is_valid =>
                    /\ smLast.response.forwarded
                    /\ smLast.response.headers["X-Session-ID"] = smLast.session_id
                    /\ smLast.response.headers["X-Session-Expires"] = smLast.expires_at

\* C20: when the store is unavailable, a non-excluded request that carries a
\* session id is answered 401 and is not forwarded with a session attached.
C20_SessionFailsClosed ==
    (/\ smLast.op = "dispatch"
     /\ smLast.path \notin session_exclude_paths
     /\ smLast.session_id # NoSessionId
     /\ ~smLast.store) =>
        /\ smLast.response.status = 401
        /\ ~smLast.response.forwarded
        /\ ~smLast.state_session

====
